---- MODULE Spec2Model ----
(***************************************************************************)
(* Model of the oscmix GUI control program                                 *)
(* (src/src/oscmix-gui/oscmix-gui-aware-smart.py): the OSCHandler          *)
(* transport (start / stop / receive thread / queued Qt signals) and the   *)
(* OscmixControlGUI state (widgets, mixer-send cache, meter cache).        *)
(*                                                                         *)
(* Units: dB values (gain, volume) are integers in tenths of a dB, the     *)
(* resolution of the spin boxes (setDecimals(1)); meter levels are in      *)
(* hundredths; pan values are integers.                                    *)
(*                                                                         *)
(* Library calls are taken at the contract the code relies on:             *)
(* handle_request_timeout(0.1) handles at most one datagram or raises,     *)
(* server.shutdown() is a request that returns, Thread.join(timeout)       *)
(* returns when the thread ended or the timeout elapsed.                   *)
(***************************************************************************)
EXTENDS Integers, Sequences, FiniteSets, TLC

VARIABLES
    \* ---- OSCHandler fields ----
    client,          \* self.client is not None
    server,          \* self.server: 0 = None, t = the server created by thread t
    server_thread,   \* self.server_thread: 0 = None, t = Thread object t
    stop_event,      \* self._stop_event.is_set()
    is_connected,    \* self._is_connected
    target_port,     \* self.target_port
    \* ---- receive threads (_server_thread_target) ----
    pc,              \* position of each receive thread
    server_error,    \* local variable server_error of each receive thread
    sock,            \* listen socket of each thread: "none", "open", "closed"
    \* ---- Qt event queue of the main thread (QueuedConnection calls) ----
    queue,
    \* ---- caller (GUI) thread ----
    guiPc,           \* "idle", or the position inside stop()
    \* ---- OscmixControlGUI fields ----
    widgets,                   \* self.widgets, with the state of each widget
    current_mixer_sends,       \* self.current_mixer_sends (present cells only)
    current_mixer_output_idx,  \* self.current_mixer_output_idx
    last_meter_values,         \* self.last_meter_values
    meter_timer,               \* self.meter_timer.isActive()
    \* ---- the wire ----
    sent,            \* datagrams transmitted to the device, in order
    \* ---- history (observation only) ----
    hist,            \* per receive thread: what it did
    sessionDisc,     \* Disconnected notifications delivered in the current session
    totalDisc,       \* Disconnected notifications delivered to subscribers so far
    syncDisc,        \* Disconnected notifications emitted synchronously by start()/stop()
    nCalls,          \* start()/stop() calls made
    nInbound,        \* datagrams received
    nLocal,          \* user edits made
    lastAction       \* the operation performed by the last step

handlerVars == <<client, server, server_thread, stop_event, is_connected, target_port>>
threadVars  == <<pc, server_error, sock>>
guiVars     == <<widgets, current_mixer_sends, current_mixer_output_idx,
                 last_meter_values, meter_timer>>
histVars    == <<hist, sessionDisc, totalDisc, syncDisc, nCalls, nInbound, nLocal, lastAction>>
vars == <<handlerVars, threadVars, queue, guiPc, guiVars, sent, histVars>>

-----------------------------------------------------------------------------
(* Bounds of the model *)

NUM_INPUT_CHANNELS  == 2
NUM_OUTPUT_CHANNELS == 2
NUM_PLAYBACK_CHANNELS == NUM_OUTPUT_CHANNELS
MaxThreads == 2
MaxCalls   == 3
MaxInbound == 2
MaxLocal   == 2
MaxEdits   == 3

Threads == 1..MaxThreads

-----------------------------------------------------------------------------
(* Configuration constants *)

OSC_INPUT_GAIN(ch)       == "/input/" \o ToString(ch) \o "/gain"
OSC_INPUT_STEREO(ch)     == "/input/" \o ToString(ch) \o "/stereo"
OSC_INPUT_LEVEL(ch)      == "/input/" \o ToString(ch) \o "/level"
OSC_INPUT_MUTE(ch)       == "/input/" \o ToString(ch) \o "/mute"
OSC_INPUT_PHASE(ch)      == "/input/" \o ToString(ch) \o "/phase"
OSC_INPUT_48V(ch)        == "/input/" \o ToString(ch) \o "/48v"
OSC_INPUT_HIZ(ch)        == "/input/" \o ToString(ch) \o "/hi-z"
OSC_INPUT_EQ_ENABLE(ch)  == "/input/" \o ToString(ch) \o "/eq"
OSC_INPUT_DYN_ENABLE(ch) == "/input/" \o ToString(ch) \o "/dynamics"
OSC_INPUT_LC_ENABLE(ch)  == "/input/" \o ToString(ch) \o "/lowcut"
OSC_OUTPUT_VOLUME(ch)     == "/output/" \o ToString(ch) \o "/volume"
OSC_OUTPUT_STEREO(ch)     == "/output/" \o ToString(ch) \o "/stereo"
OSC_OUTPUT_LEVEL(ch)      == "/output/" \o ToString(ch) \o "/level"
OSC_OUTPUT_MUTE(ch)       == "/output/" \o ToString(ch) \o "/mute"
OSC_OUTPUT_PHASE(ch)      == "/output/" \o ToString(ch) \o "/phase"
OSC_OUTPUT_EQ_ENABLE(ch)  == "/output/" \o ToString(ch) \o "/eq"
OSC_OUTPUT_DYN_ENABLE(ch) == "/output/" \o ToString(ch) \o "/dynamics"
OSC_OUTPUT_LC_ENABLE(ch)  == "/output/" \o ToString(ch) \o "/lowcut"
OSC_PLAYBACK_LEVEL(ch)    == "/playback/" \o ToString(ch) \o "/level"
OSC_MIX_SEND_VOLUME(out_ch, in_type, in_ch) ==
    "/mix/" \o ToString(out_ch) \o "/" \o in_type \o "/" \o ToString(in_ch)
OSC_MIX_SEND_PAN(out_ch, in_type, in_ch) ==
    "/mix/" \o ToString(out_ch) \o "/" \o in_type \o "/" \o ToString(in_ch) \o "/pan"
OSC_MIX_SEND_SET(out_ch, in_type, in_ch) ==
    "/mix/" \o ToString(out_ch) \o "/" \o in_type \o "/" \o ToString(in_ch)
OSC_REFRESH == "/refresh"

INPUT_GAIN_FLAG     == 1
INPUT_REFLEVEL_FLAG == 2
INPUT_48V_FLAG      == 4
INPUT_HIZ_FLAG      == 8

\* Flag sets of the input channels, by 0-based index (the device table,
\* cut to the first NUM_INPUT_CHANNELS entries)
INPUT_CHANNEL_INFO(i) ==
    IF i < 2 THEN {INPUT_GAIN_FLAG, INPUT_48V_FLAG}
    ELSE IF i < 4 THEN {INPUT_GAIN_FLAG, INPUT_REFLEVEL_FLAG, INPUT_HIZ_FLAG}
    ELSE IF i < 8 THEN {INPUT_GAIN_FLAG, INPUT_REFLEVEL_FLAG}
    ELSE {}

\* an OSC argument: a typed value
F(v) == [t |-> "f", v |-> v]
I(v) == [t |-> "i", v |-> v]
\* a string argument; v numbers the texts
S(v) == [t |-> "s", v |-> v]
Msg(address, args) == [addr |-> address, args |-> args]

-----------------------------------------------------------------------------
(* Helper functions (values in tenths of a dB; meter levels in hundredths) *)

Max(a, b) == IF a >= b THEN a ELSE b
Min(a, b) == IF a <= b THEN a ELSE b
Clamp(lo, hi, v) == Max(lo, Min(hi, v))

\* int(max(0.0, min(1.0, float(val))) * 100), val in hundredths
float_to_slider_linear(val) == Clamp(0, 100, val)

input_gain_to_slider(db_value)    == Clamp(0, 750, db_value)
slider_to_input_gain(slider_value) == slider_value
output_volume_to_slider(db_value) == Clamp(-650, 60, db_value)
slider_to_output_volume(slider_value) == slider_value
mix_send_volume_to_slider(db_value) == output_volume_to_slider(db_value)
slider_to_mix_send_volume(slider_value) == slider_to_output_volume(slider_value)
pan_to_spinbox(pan_val) == Clamp(-100, 100, pan_val)
spinbox_to_pan(spinbox_val) == spinbox_val

-----------------------------------------------------------------------------
(* Widgets.  self.widgets maps a key string to a list; a list element is a *)
(* widget (its state inline) or None.  name is objectName().split('_').    *)

NoneW == [kind |-> "None", name |-> <<>>, value |-> 0, lo |-> 0, hi |-> 0,
          enabled |-> FALSE, visible |-> FALSE]
Widget(kind, name, value, lo, hi, enabled, visible) ==
    [kind |-> kind, name |-> name, value |-> value, lo |-> lo, hi |-> hi,
     enabled |-> enabled, visible |-> visible]
IsNone(w) == w.kind = "None"

\* str.lower() on the tab prefixes
Lower(type_prefix) ==
    CASE type_prefix = "Inputs"   -> "inputs"
      [] type_prefix = "Outputs"  -> "outputs"
      [] type_prefix = "Playback" -> "playback"

\* the parts of a control name, as split('_') returns them
ControlParts(control) ==
    CASE control = "gain_spinbox" -> <<"gain", "spinbox">>
      [] control = "eq_enable"    -> <<"eq", "enable">>
      [] control = "dyn_enable"   -> <<"dyn", "enable">>
      [] control = "lc_enable"    -> <<"lc", "enable">>
      [] OTHER                    -> <<control>>

RECURSIVE Join(_)
\* "_".join(parts)
Join(parts) ==
    IF Len(parts) = 0 THEN ""
    ELSE IF Len(parts) = 1 THEN parts[1]
    ELSE parts[1] \o "_" \o Join(Tail(parts))

MaxIndex == NUM_INPUT_CHANNELS + NUM_OUTPUT_CHANNELS
\* int(idx_str): defined on the decimal strings only
IsIntStr(s) == \E n \in 0..MaxIndex : ToString(n) = s
ParseInt(s) == CHOOSE n \in 0..MaxIndex : ToString(n) = s

TabPrefixes == {"Inputs", "Outputs", "Playback"}
ChannelControls == {"meter", "gain", "gain_spinbox", "mute", "phase", "eq_enable",
                    "dyn_enable", "lc_enable", "phantom", "hiz", "link"}
BoolControls == {"mute", "phase", "phantom", "hiz", "eq_enable", "dyn_enable", "lc_enable"}
\* str.split('_', 1) on the channel and signal type strings
split_1(s) ==
    LET pairs == {p \in {"input", "output", "playback"} \X BoolControls :
                     s = p[1] \o "_" \o p[2]}
    IN  IF pairs = {} THEN <<s>>
        ELSE LET p == CHOOSE q \in pairs : TRUE IN <<p[1], p[2]>>

TabCount(type_prefix) ==
    CASE type_prefix = "Inputs"   -> NUM_INPUT_CHANNELS
      [] type_prefix = "Outputs"  -> NUM_OUTPUT_CHANNELS
      [] type_prefix = "Playback" -> NUM_PLAYBACK_CHANNELS
TabControls(type_prefix) == type_prefix # "Playback"

\* the widget _populate_channel_tab creates for (tab, control, channel i)
ChannelWidget(type_prefix, control, i) ==
    LET widget_type_key == Lower(type_prefix)
        nm == <<widget_type_key>> \o ControlParts(control) \o <<ToString(i)>>
        ch_flags == IF type_prefix = "Inputs" THEN INPUT_CHANNEL_INFO(i) ELSE {}
        has_gain == IF type_prefix = "Inputs" THEN INPUT_GAIN_FLAG \in ch_flags ELSE TRUE
    IN  IF control = "meter" THEN Widget("meter", nm, 0, 0, 100, TRUE, TRUE)
        ELSE IF ~TabControls(type_prefix) THEN NoneW
        ELSE IF control \in {"gain", "gain_spinbox"} THEN
            IF type_prefix = "Inputs"
            THEN Widget(control, nm, 0, 0, 750, has_gain, TRUE)
            ELSE Widget(control, nm, -650, -650, 60, TRUE, TRUE)
        ELSE IF control = "phantom" THEN
            IF type_prefix = "Inputs"
            THEN Widget("checkbox", nm, 0, 0, 1, INPUT_48V_FLAG \in ch_flags,
                        INPUT_48V_FLAG \in ch_flags)
            ELSE NoneW
        ELSE IF control = "hiz" THEN
            IF type_prefix = "Inputs"
            THEN Widget("checkbox", nm, 0, 0, 1, INPUT_HIZ_FLAG \in ch_flags,
                        INPUT_HIZ_FLAG \in ch_flags)
            ELSE NoneW
        ELSE IF control = "link" THEN
            Widget("checkbox", nm, 0, 0, 1, TRUE, (i % 2) = 0)
        ELSE Widget("checkbox", nm, 0, 0, 1, TRUE, TRUE)

ChannelKey(type_prefix, control) == Lower(type_prefix) \o "_" \o control
ChannelKeys == {ChannelKey(p[1], p[2]) : p \in TabPrefixes \X ChannelControls}
MixerKeys == {"mixer_" \o p[1] \o "_" \o p[2] :
                 p \in {"input", "playback"} \X {"gain", "gain_spinbox", "pan_spinbox"}}

\* self.widgets after _populate_channel_tab for the three tabs
_populate_channel_tab ==
    [k \in ChannelKeys |->
        LET p == CHOOSE q \in TabPrefixes \X ChannelControls : ChannelKey(q[1], q[2]) = k
        IN  [n \in 1..TabCount(p[1]) |-> ChannelWidget(p[1], p[2], n - 1)]]

\* self.widgets.get(key), a missing key and an empty list being both falsy
WidgetsGet(w, key) == IF key \in DOMAIN w THEN w[key] ELSE <<>>
\* list[i] exists and is not None (0-based i)
HasWidget(list, i) == 0 <= i /\ i < Len(list) /\ ~IsNone(list[i + 1])
\* QAbstractSlider / QSpinBox .setValue keeps the value inside the range
SetValue(w, key, i, v) ==
    [w EXCEPT ![key][i + 1].value = Clamp(w[key][i + 1].lo, w[key][i + 1].hi, v)]
SetEnabled(w, key, i, en) == [w EXCEPT ![key][i + 1].enabled = en]

-----------------------------------------------------------------------------
(* The mixer-send cache: a defaultdict, reading a missing cell inserts it *)

CellDefault == [volume |-> -650, pan |-> 0]
Cell(out_idx, in_type, in_idx) == <<out_idx, in_type, in_idx>>
Touch(c, cell) == IF cell \in DOMAIN c THEN c ELSE c @@ (cell :> CellDefault)
CacheSet(c, cell, field, v) == [Touch(c, cell) EXCEPT ![cell][field] = v]
CacheGet(c, cell) == IF cell \in DOMAIN c THEN c[cell] ELSE CellDefault

\* the GUI state the handlers work on; send_message is what
\* client.send_message does during the step ("ok" or "raises"), printed the
\* lines the handler prints, raised the exception that leaves the slot
Gui(outcome) ==
    [widgets |-> widgets, sends |-> current_mixer_sends,
     out_idx |-> current_mixer_output_idx, meters |-> last_meter_values,
     timer |-> meter_timer, sent |-> sent, calls |-> <<>>,
     send_message |-> outcome, printed |-> <<>>, raised |-> ""]
G == Gui("ok")

-----------------------------------------------------------------------------
(* OSCHandler.send / send_multi: transmit when client and _is_connected;    *)
(* an exception of client.send_message is caught and printed.              *)
(* g.calls records every message handed to the handler by the step.        *)

\* a send_multi without the test of client and _is_connected
send_multi_unguarded(g, address, values) ==
    [g EXCEPT !.calls = Append(@, Msg(address, values)),
              !.sent  = IF g.send_message = "ok"
                        THEN Append(@, Msg(address, values)) ELSE @,
              !.printed = IF g.send_message = "ok" THEN @
                          ELSE Append(@, "Send Multi Error")]

send(g, address, values) ==
    [g EXCEPT !.calls = Append(@, Msg(address, values)),
              !.sent  = IF client /\ is_connected /\ g.send_message = "ok"
                        THEN Append(@, Msg(address, values)) ELSE @,
              !.printed = IF client /\ is_connected
                          THEN IF g.send_message = "ok" THEN @
                               ELSE Append(@, "Send Error")
                          ELSE IF ~is_connected THEN Append(@, "Not connected")
                          ELSE Append(@, "Client is None")]

send_multi(g, address, values) ==
    [g EXCEPT !.calls = Append(@, Msg(address, values)),
              !.sent  = IF client /\ is_connected /\ g.send_message = "ok"
                        THEN Append(@, Msg(address, values)) ELSE @,
              !.printed = IF client /\ is_connected
                          THEN IF g.send_message = "ok" THEN @
                               ELSE Append(@, "Send Multi Error")
                          ELSE IF ~is_connected THEN Append(@, "Not connected")
                          ELSE Append(@, "Client is None")]

Qt_Checked == 2

-----------------------------------------------------------------------------
(* Slots of OscmixControlGUI, as functions on the GUI state g *)

\* a link that also copies the values of the first channel to the second
_update_linked_channel_state_copying(g, channel_type, odd_ch_idx, is_linked) ==
    LET even_ch_idx == odd_ch_idx + 1
        keys == {channel_type \o "_gain", channel_type \o "_gain_spinbox"}
                \cup {channel_type \o "_" \o control : control \in BoolControls}
        w == g.widgets
    IN  [g EXCEPT !.widgets =
            [k \in DOMAIN w |->
                IF k \in keys /\ HasWidget(w[k], even_ch_idx)
                THEN [w[k] EXCEPT ![even_ch_idx + 1].enabled = ~is_linked,
                                  ![even_ch_idx + 1].value = w[k][odd_ch_idx + 1].value]
                ELSE w[k]]]

_update_linked_channel_state(g, channel_type, odd_ch_idx, is_linked) ==
    LET even_ch_idx == odd_ch_idx + 1
        keys == {channel_type \o "_gain", channel_type \o "_gain_spinbox"}
                \cup {channel_type \o "_" \o control : control \in BoolControls}
    IN  [g EXCEPT !.widgets =
            [k \in DOMAIN @ |->
                IF k \in keys /\ HasWidget(@[k], even_ch_idx)
                THEN [@[k] EXCEPT ![even_ch_idx + 1].enabled = ~is_linked]
                ELSE @[k]]]

send_gain_from_gui(g, obj_name, value_db) ==
    IF Len(obj_name) # 4 \/ ~IsIntStr(obj_name[4]) THEN g
    ELSE LET type == obj_name[1]
             ch_num_1_based == ParseInt(obj_name[4]) + 1
         IN  IF type = "input" THEN send(g, OSC_INPUT_GAIN(ch_num_1_based), <<F(value_db)>>)
             ELSE IF type = "output"
                  THEN send(g, OSC_OUTPUT_VOLUME(ch_num_1_based), <<F(value_db)>>)
             ELSE g

\* archive/oscmix-gui.py, the slider console: a gain slider takes a value
\* inside its range (setRange(0, 750) for inputs, setRange(-650, 60) for
\* outputs) and its valueChanged runs send_gain_from_gui
archive_gain_slider_unbounded(type, v) == v

archive_gain_slider_setValue(type, v) ==
    IF type = "input" THEN Clamp(0, 750, v) ELSE Clamp(-650, 60, v)

archive_send_gain_from_gui(g, obj_name, slider_value) ==
    IF Len(obj_name) # 3 \/ ~IsIntStr(obj_name[3]) THEN g
    ELSE LET type == obj_name[1]
             ch_num_1_based == ParseInt(obj_name[3]) + 1
         IN  IF type = "input"
             THEN send(g, OSC_INPUT_GAIN(ch_num_1_based),
                       <<F(slider_to_input_gain(slider_value))>>)
             ELSE IF type = "output"
                  THEN send(g, OSC_OUTPUT_VOLUME(ch_num_1_based),
                            <<F(slider_to_output_volume(slider_value))>>)
             ELSE g

send_link_from_gui(g, obj_name, state) ==
    IF Len(obj_name) # 3 \/ ~IsIntStr(obj_name[3]) THEN g
    ELSE LET type == obj_name[1]
             ch_idx == ParseInt(obj_name[3])
             bool_value == (state = Qt_Checked)
             osc_value == IF bool_value THEN 1 ELSE 0
         IN  IF type = "input"
             THEN _update_linked_channel_state(
                      send(g, OSC_INPUT_STEREO(ch_idx + 1), <<I(osc_value)>>),
                      type, ch_idx, bool_value)
             ELSE IF type = "output"
             THEN _update_linked_channel_state(
                      send(g, OSC_OUTPUT_STEREO(ch_idx + 1), <<I(osc_value)>>),
                      type, ch_idx, bool_value)
             ELSE g

\* addr_map of send_bool_from_gui: (input path, output path), "" for None
addr_map(control_name, ch) ==
    CASE control_name = "mute"       -> <<OSC_INPUT_MUTE(ch), OSC_OUTPUT_MUTE(ch)>>
      [] control_name = "phase"      -> <<OSC_INPUT_PHASE(ch), OSC_OUTPUT_PHASE(ch)>>
      [] control_name = "phantom"    -> <<OSC_INPUT_48V(ch), "">>
      [] control_name = "hiz"        -> <<OSC_INPUT_HIZ(ch), "">>
      [] control_name = "eq_enable"  -> <<OSC_INPUT_EQ_ENABLE(ch), OSC_OUTPUT_EQ_ENABLE(ch)>>
      [] control_name = "dyn_enable" -> <<OSC_INPUT_DYN_ENABLE(ch), OSC_OUTPUT_DYN_ENABLE(ch)>>
      [] control_name = "lc_enable"  -> <<OSC_INPUT_LC_ENABLE(ch), OSC_OUTPUT_LC_ENABLE(ch)>>
      [] OTHER                       -> <<>>

send_bool_from_gui(g, obj_name, state) ==
    IF Len(obj_name) < 1 \/ ~IsIntStr(obj_name[Len(obj_name)]) THEN g
    ELSE LET type == obj_name[1]
             control_name == Join(SubSeq(obj_name, 2, Len(obj_name) - 1))
             ch_num_1_based == ParseInt(obj_name[Len(obj_name)]) + 1
             osc_value == IF state = Qt_Checked THEN 1 ELSE 0
             paths == addr_map(control_name, ch_num_1_based)
         IN  IF paths = <<>> THEN g
             ELSE LET osc_address == IF type = "input" THEN paths[1] ELSE paths[2]
                  IN  IF osc_address = "" THEN g
                      ELSE send(g, osc_address, <<I(osc_value)>>)

\* a volume write that goes to the level address of the strip
send_mix_gain_to_level(g, obj_name, value_db) ==
    IF Len(obj_name) # 6 \/ ~IsIntStr(obj_name[5]) \/ ~IsIntStr(obj_name[6]) THEN g
    ELSE send(g, OSC_INPUT_LEVEL(ParseInt(obj_name[6]) + 1), <<F(value_db)>>)

send_mix_gain_from_gui(g, obj_name, value_db) ==
    IF Len(obj_name) # 6 \/ ~IsIntStr(obj_name[5]) \/ ~IsIntStr(obj_name[6]) THEN g
    ELSE LET in_type == obj_name[2]
             out_idx == ParseInt(obj_name[5])
             in_idx  == ParseInt(obj_name[6])
             cell == Cell(out_idx, in_type, in_idx)
             g1 == [g EXCEPT !.sends = Touch(@, cell)]
             current_pan == g1.sends[cell].pan
             g2 == send_multi(g1, OSC_MIX_SEND_SET(out_idx + 1, in_type, in_idx + 1),
                              <<F(value_db), I(current_pan)>>)
         IN  [g2 EXCEPT !.sends = CacheSet(@, cell, "volume", value_db)]

\* a pan write that pairs the new pan with the default volume
send_mix_pan_default_volume(g, obj_name, pan_value) ==
    IF Len(obj_name) # 6 \/ ~IsIntStr(obj_name[5]) \/ ~IsIntStr(obj_name[6]) THEN g
    ELSE LET in_type == obj_name[2]
             out_idx == ParseInt(obj_name[5])
             in_idx  == ParseInt(obj_name[6])
             cell == Cell(out_idx, in_type, in_idx)
             g1 == [g EXCEPT !.sends = Touch(@, cell)]
             g2 == send_multi(g1, OSC_MIX_SEND_SET(out_idx + 1, in_type, in_idx + 1),
                              <<F(CellDefault.volume), I(pan_value)>>)
         IN  [g2 EXCEPT !.sends = CacheSet(@, cell, "pan", pan_value)]

send_mix_pan_from_gui(g, obj_name, pan_value) ==
    IF Len(obj_name) # 6 \/ ~IsIntStr(obj_name[5]) \/ ~IsIntStr(obj_name[6]) THEN g
    ELSE LET in_type == obj_name[2]
             out_idx == ParseInt(obj_name[5])
             in_idx  == ParseInt(obj_name[6])
             cell == Cell(out_idx, in_type, in_idx)
             g1 == [g EXCEPT !.sends = Touch(@, cell)]
             current_volume == g1.sends[cell].volume
             g2 == send_multi(g1, OSC_MIX_SEND_SET(out_idx + 1, in_type, in_idx + 1),
                              <<F(current_volume), I(pan_value)>>)
         IN  [g2 EXCEPT !.sends = CacheSet(@, cell, "pan", pan_value)]

-----------------------------------------------------------------------------
(* connect_signals: which widgets got a sending slot connected.  The       *)
(* lookups use the keys "input_..." / "output_..." on the widget table     *)
(* built by _populate_channel_tab.                                         *)

TypeCount(type_key) ==
    CASE type_key = "input"    -> NUM_INPUT_CHANNELS
      [] type_key = "output"   -> NUM_OUTPUT_CHANNELS
      [] type_key = "playback" -> NUM_PLAYBACK_CHANNELS

\* valueChanged of list[key][i] is connected to send_gain_from_gui
gain_connected(key, i) ==
    \E type_key \in {"input", "output"} :
        /\ key = type_key \o "_gain_spinbox"
        /\ i < TypeCount(type_key)
        /\ HasWidget(WidgetsGet(_populate_channel_tab, key), i)
        /\ WidgetsGet(_populate_channel_tab, key)[i + 1].enabled

\* stateChanged of list[key][i] is connected to send_bool_from_gui
bool_connected(key, i) ==
    \E type_key \in {"input", "output"} : \E control_key \in BoolControls :
        /\ key = type_key \o "_" \o control_key
        /\ i < TypeCount(type_key)
        /\ HasWidget(WidgetsGet(_populate_channel_tab, key), i)

\* stateChanged of list[key][i] is connected to send_link_from_gui
link_connected(key, i) ==
    \E type_key \in {"input", "output"} :
        /\ key = type_key \o "_link"
        /\ i < TypeCount(type_key)
        /\ HasWidget(WidgetsGet(_populate_channel_tab, key), i)
        /\ (i % 2) = 0

\* self.widgets once the constructor has run connect_signals: the indexing
\* self.widgets[f'{type_key}_gain_spinbox'] of the defaultdict inserts the key
connect_signals(w) ==
    [k \in DOMAIN w \cup {"input_gain_spinbox", "output_gain_spinbox"} |->
        IF k \in DOMAIN w THEN w[k] ELSE <<>>]

-----------------------------------------------------------------------------
(* Value changes of widgets and the slots they trigger *)

\* gain_spinbox.setValue(v) with signals on: spinbox_slot moves the slider,
\* slider_slot writes the spin box back, then send_gain_from_gui if connected
gain_spinbox_valueChanged(g, type_prefix, i, v) ==
    LET key == ChannelKey(type_prefix, "gain_spinbox")
        skey == ChannelKey(type_prefix, "gain")
        w1 == SetValue(g.widgets, key, i, v)
        new == w1[key][i + 1].value
        w2 == SetValue(w1, skey, i,
                       IF type_prefix = "Inputs" THEN input_gain_to_slider(new)
                       ELSE output_volume_to_slider(new))
        w3 == SetValue(w2, key, i,
                       IF type_prefix = "Inputs" THEN slider_to_input_gain(w2[skey][i + 1].value)
                       ELSE slider_to_output_volume(w2[skey][i + 1].value))
        g1 == [g EXCEPT !.widgets = w3]
    IN  IF new = g.widgets[key][i + 1].value THEN g
        ELSE IF gain_connected(key, i) THEN send_gain_from_gui(g1, w3[key][i + 1].name, new)
        ELSE g1

\* checkbox.setChecked(b) with signals on
checkbox_stateChanged(g, type_prefix, control, i, b) ==
    LET key == ChannelKey(type_prefix, control)
        val == IF b THEN 1 ELSE 0
        state == IF b THEN Qt_Checked ELSE 0
        g1 == [g EXCEPT !.widgets = SetValue(@, key, i, val)]
        nm == g.widgets[key][i + 1].name
    IN  IF val = g.widgets[key][i + 1].value THEN g
        ELSE IF control = "link"
             THEN (IF link_connected(key, i) THEN send_link_from_gui(g1, nm, state) ELSE g1)
             ELSE (IF bool_connected(key, i) THEN send_bool_from_gui(g1, nm, state) ELSE g1)

\* vol_spinbox.setValue(v) of a mixer strip with signals on: the first slot
\* moves the slider (which writes the spin box back), the second is
\* send_mix_gain_from_gui
mix_gain_spinbox_valueChanged(g, in_type, i, v) ==
    LET key == "mixer_" \o in_type \o "_gain_spinbox"
        skey == "mixer_" \o in_type \o "_gain"
        w1 == SetValue(g.widgets, key, i, v)
        new == w1[key][i + 1].value
        w2 == SetValue(w1, skey, i, mix_send_volume_to_slider(new))
        w3 == SetValue(w2, key, i, slider_to_mix_send_volume(w2[skey][i + 1].value))
        g1 == [g EXCEPT !.widgets = w3]
    IN  IF new = g.widgets[key][i + 1].value THEN g
        ELSE send_mix_gain_from_gui(g1, w3[key][i + 1].name, new)

\* pan_spinbox.setValue(v) of a mixer strip with signals on
mix_pan_spinbox_valueChanged(g, in_type, i, v) ==
    LET key == "mixer_" \o in_type \o "_pan_spinbox"
        w1 == SetValue(g.widgets, key, i, v)
        new == w1[key][i + 1].value
        g1 == [g EXCEPT !.widgets = w1]
    IN  IF new = g.widgets[key][i + 1].value THEN g
        ELSE send_mix_pan_from_gui(g1, w1[key][i + 1].name, new)

RECURSIVE populate_sends(_, _, _, _)
\* the loop body of _update_mixer_view for strips i.. of one group
populate_sends(g, output_ch_idx, in_type, i) ==
    IF i >= TypeCount(in_type) THEN g
    ELSE
    LET base == "mixer_" \o in_type
        nm(ctl) == <<"mixer", in_type>> \o ctl
                   \o <<ToString(output_ch_idx), ToString(i)>>
        vol_slider  == Widget("slider", nm(<<"gain">>), -650, -650, 60, TRUE, TRUE)
        vol_spinbox == Widget("spinbox", nm(<<"gain", "spinbox">>), -650, -650, 60, TRUE, TRUE)
        pan_spinbox == Widget("spinbox", nm(<<"pan", "spinbox">>), 0, -100, 100, TRUE, TRUE)
        cell == Cell(output_ch_idx, in_type, i)
        g1 == [g EXCEPT !.widgets[base \o "_gain"] = Append(@, vol_slider),
                        !.widgets[base \o "_gain_spinbox"] = Append(@, vol_spinbox),
                        !.widgets[base \o "_pan_spinbox"] = Append(@, pan_spinbox),
                        !.sends = Touch(@, cell)]
        g2 == mix_gain_spinbox_valueChanged(g1, in_type, i, g1.sends[cell].volume)
        g3 == mix_pan_spinbox_valueChanged(g2, in_type, i, g2.sends[cell].pan)
    IN  populate_sends(g3, output_ch_idx, in_type, i + 1)

_update_mixer_view(g, output_ch_idx) ==
    LET g0 == [g EXCEPT !.out_idx = output_ch_idx,
                        !.widgets = [k \in DOMAIN @ |->
                                        IF k \in MixerKeys THEN <<>> ELSE @[k]]]
    IN  populate_sends(populate_sends(g0, output_ch_idx, "input", 0),
                       output_ch_idx, "playback", 0)

_on_mixer_output_selected(g, index) == _update_mixer_view(g, index)

-----------------------------------------------------------------------------
(* Slots for the notifications of the OSC handler *)

send_refresh_command(g) == send(g, OSC_REFRESH, <<>>)

\* a slot that asks for the state twice
on_osc_connected_twice(g) ==
    send_refresh_command(send_refresh_command([g EXCEPT !.timer = TRUE]))

on_osc_connected(g) == send_refresh_command([g EXCEPT !.timer = TRUE])

NoMeters == [type_key \in {"input", "output", "playback"} |-> <<>>]

on_osc_disconnected(g) ==
    LET meter_keys == {"input_meter", "output_meter", "playback_meter"}
    IN  [g EXCEPT !.timer = FALSE,
                  !.widgets = [k \in DOMAIN @ |->
                      IF k \in meter_keys
                      THEN [n \in 1..Len(@[k]) |->
                              IF IsNone(@[k][n]) THEN @[k][n]
                              ELSE [@[k][n] EXCEPT !.value = 0]]
                      ELSE @[k]],
                  !.meters = NoMeters,
                  !.sends = <<>>]

\* the log view is a display outside the console's store: a line appended
\* to it changes none of the fields of g
log_osc_message(g, address, args) == g

\* a slot that files the level under the 1-based channel number
on_meter_received_one_based(g, channel_type, ch_idx, value) ==
    IF channel_type \in DOMAIN g.meters
    THEN [g EXCEPT !.meters[channel_type] = ((ch_idx + 1) :> value) @@ @]
    ELSE g

on_meter_received(g, channel_type, ch_idx, value) ==
    IF channel_type \in DOMAIN g.meters
    THEN [g EXCEPT !.meters[channel_type] = (ch_idx :> value) @@ @]
    ELSE g

\* a timer slot that lets the bars without a stored level fall to 0
update_gui_meters_decay(g) ==
    [g EXCEPT !.widgets = [k \in DOMAIN @ |->
                  IF k \in {"input_meter", "output_meter", "playback_meter"}
                  THEN [n \in 1..Len(@[k]) |->
                          [@[k][n] EXCEPT !.value =
                              IF (n - 1) \in DOMAIN g.meters["playback"]
                              THEN float_to_slider_linear(g.meters["playback"][n - 1])
                              ELSE 0]]
                  ELSE @[k]],
              !.meters = NoMeters]

\* the timer slot: shows the stored levels on the meter bars found under
\* "<type>_meter", then clears the stored levels of every type
update_gui_meters(g) ==
    LET shown(type_key, w) ==
            LET widget_key == type_key \o "_meter"
                meter_widget_list == WidgetsGet(w, widget_key)
                meter_values == g.meters[type_key]
            IN  IF Len(meter_widget_list) > 0
                THEN [w EXCEPT ![widget_key] =
                        [n \in 1..Len(meter_widget_list) |->
                            IF (n - 1) \in DOMAIN meter_values
                            THEN [meter_widget_list[n] EXCEPT !.value =
                                    Clamp(meter_widget_list[n].lo, meter_widget_list[n].hi,
                                          float_to_slider_linear(meter_values[n - 1]))]
                            ELSE meter_widget_list[n]]]
                ELSE w
    IN  [g EXCEPT !.widgets = shown("playback", shown("output", shown("input", @))),
                  !.meters = NoMeters]

on_gain_received(g, channel_type, ch_idx, value_db) ==
    LET skey == channel_type \o "_gain"
        key == channel_type \o "_gain_spinbox"
        slider_list == WidgetsGet(g.widgets, skey)
        spinbox_list == WidgetsGet(g.widgets, key)
    IN  IF Len(slider_list) > 0 /\ Len(spinbox_list) > 0
           /\ 0 <= ch_idx /\ ch_idx < Len(slider_list)
        THEN IF IsNone(slider_list[ch_idx + 1]) \/ IsNone(spinbox_list[ch_idx + 1]) THEN g
             ELSE IF channel_type = "input"
             THEN [g EXCEPT !.widgets = SetValue(SetValue(@, skey, ch_idx,
                                                input_gain_to_slider(value_db)),
                                                key, ch_idx, value_db)]
             ELSE IF channel_type = "output"
             THEN [g EXCEPT !.widgets = SetValue(SetValue(@, skey, ch_idx,
                                                output_volume_to_slider(value_db)),
                                                key, ch_idx, value_db)]
             ELSE g
        ELSE g

on_link_received(g, channel_type, ch_idx, value) ==
    LET key == channel_type \o "_link"
        cb_list == WidgetsGet(g.widgets, key)
    IN  IF Len(cb_list) > 0 /\ HasWidget(cb_list, ch_idx) /\ (ch_idx % 2) = 0
        THEN _update_linked_channel_state(
                 [g EXCEPT !.widgets = SetValue(@, key, ch_idx, IF value THEN 1 ELSE 0)],
                 channel_type, ch_idx, value)
        ELSE g

\* every on/off signal is connected to this slot and passes the base type
\* ("input" / "output"): the unpacking of split('_', 1) then raises
\* ValueError and the slot ends without touching a widget
on_bool_received(g, channel_type, ch_idx, value) ==
    LET parts == split_1(channel_type)
    IN  IF Len(parts) # 2 THEN [g EXCEPT !.raised = "ValueError"]
        ELSE LET widget_key == parts[1] \o "_" \o parts[2]
                 cb_list == WidgetsGet(g.widgets, widget_key)
             IN  IF Len(cb_list) > 0 /\ HasWidget(cb_list, ch_idx)
                 THEN [g EXCEPT !.widgets = SetValue(@, widget_key, ch_idx,
                                                     IF value THEN 1 ELSE 0)]
                 ELSE g

\* a slot that adds the reported value to the cached one
on_mix_send_received_added(g, out_idx, in_type, in_idx, value_db) ==
    [g EXCEPT !.sends = CacheSet(@, Cell(out_idx, in_type, in_idx), "volume",
                                 CacheGet(@, Cell(out_idx, in_type, in_idx)).volume
                                    + value_db)]

on_mix_send_received(g, out_idx, in_type, in_idx, value_db) ==
    LET g1 == [g EXCEPT !.sends = CacheSet(@, Cell(out_idx, in_type, in_idx),
                                           "volume", value_db)]
        skey == "mixer_" \o in_type \o "_gain"
        key == skey \o "_spinbox"
        slider_list == WidgetsGet(g.widgets, skey)
        spinbox_list == WidgetsGet(g.widgets, key)
    IN  IF out_idx = g.out_idx /\ Len(slider_list) > 0 /\ Len(spinbox_list) > 0
           /\ 0 <= in_idx /\ in_idx < Len(slider_list)
        THEN [g1 EXCEPT !.widgets = SetValue(SetValue(@, skey, in_idx,
                                             mix_send_volume_to_slider(value_db)),
                                             key, in_idx, value_db)]
        ELSE g1

\* a slot that sets the pan spin box with its signals on
on_mix_pan_received_echo(g, out_idx, in_type, in_idx, pan_value) ==
    LET g1 == [g EXCEPT !.sends = CacheSet(@, Cell(out_idx, in_type, in_idx),
                                           "pan", pan_value)]
    IN  IF out_idx = g.out_idx /\ 0 <= in_idx /\ in_idx < TypeCount(in_type)
        THEN mix_pan_spinbox_valueChanged(g1, in_type, in_idx, pan_to_spinbox(pan_value))
        ELSE g1

on_mix_pan_received(g, out_idx, in_type, in_idx, pan_value) ==
    LET g1 == [g EXCEPT !.sends = CacheSet(@, Cell(out_idx, in_type, in_idx),
                                           "pan", pan_value)]
        key == "mixer_" \o in_type \o "_pan_spinbox"
        spinbox_list == WidgetsGet(g.widgets, key)
    IN  IF out_idx = g.out_idx /\ Len(spinbox_list) > 0
           /\ 0 <= in_idx /\ in_idx < Len(spinbox_list)
        THEN [g1 EXCEPT !.widgets = SetValue(@, key, in_idx, pan_to_spinbox(pan_value))]
        ELSE g1

-----------------------------------------------------------------------------
(* The dispatcher table built by _map_osc_addresses.  The handlers are     *)
(* called as handler(address, fixed arguments..., message arguments...),   *)
(* the layout the handlers' comments state.                                *)

Entry(address, handler, typ, idx, out, upd) ==
    [addr |-> address, handler |-> handler, typ |-> typ, idx |-> idx,
     out |-> out, upd |-> upd]

\* the address patterns of the on/off parameters in channel_configs
bool_path(type_key, control, i) ==
    IF type_key = "input"
    THEN CASE control = "mute"       -> OSC_INPUT_MUTE(i)
           [] control = "phase"      -> OSC_INPUT_PHASE(i)
           [] control = "eq_enable"  -> OSC_INPUT_EQ_ENABLE(i)
           [] control = "dyn_enable" -> OSC_INPUT_DYN_ENABLE(i)
           [] control = "lc_enable"  -> OSC_INPUT_LC_ENABLE(i)
           [] control = "phantom"    -> OSC_INPUT_48V(i)
           [] control = "hiz"        -> OSC_INPUT_HIZ(i)
    ELSE CASE control = "mute"       -> OSC_OUTPUT_MUTE(i)
           [] control = "phase"      -> OSC_OUTPUT_PHASE(i)
           [] control = "eq_enable"  -> OSC_OUTPUT_EQ_ENABLE(i)
           [] control = "dyn_enable" -> OSC_OUTPUT_DYN_ENABLE(i)
           [] control = "lc_enable"  -> OSC_OUTPUT_LC_ENABLE(i)

\* a table that maps the link address of every channel
_map_osc_addresses_every_link ==
    {Entry(OSC_INPUT_STEREO(i), "_handle_link", "input", i - 1, 0, "") :
        i \in 1..NUM_INPUT_CHANNELS}
    \cup {Entry(OSC_MIX_SEND_VOLUME(c[1], c[2], c[3]), "_handle_mix_update",
                c[2], c[3] - 1, c[1] - 1, "volume") :
            c \in (1..NUM_OUTPUT_CHANNELS) \X {"input"} \X (1..NUM_INPUT_CHANNELS)}
    \cup {Entry(OSC_INPUT_GAIN(i), "_handle_gain", "input", i - 1, 0, "") :
        i \in 1..NUM_INPUT_CHANNELS}

_map_osc_addresses ==
    {Entry(OSC_INPUT_GAIN(i), "_handle_gain", "input", i - 1, 0, "") :
        i \in 1..NUM_INPUT_CHANNELS}
    \cup {Entry(OSC_OUTPUT_VOLUME(i), "_handle_gain", "output", i - 1, 0, "") :
        i \in 1..NUM_OUTPUT_CHANNELS}
    \cup {Entry(OSC_INPUT_STEREO(i), "_handle_link", "input", i - 1, 0, "") :
        i \in {n \in 1..NUM_INPUT_CHANNELS : (n % 2) # 0}}
    \cup {Entry(OSC_OUTPUT_STEREO(i), "_handle_link", "output", i - 1, 0, "") :
        i \in {n \in 1..NUM_OUTPUT_CHANNELS : (n % 2) # 0}}
    \cup {Entry(OSC_INPUT_LEVEL(i), "_handle_meter", "input", i - 1, 0, "") :
        i \in 1..NUM_INPUT_CHANNELS}
    \cup {Entry(OSC_OUTPUT_LEVEL(i), "_handle_meter", "output", i - 1, 0, "") :
        i \in 1..NUM_OUTPUT_CHANNELS}
    \cup {Entry(OSC_PLAYBACK_LEVEL(i), "_handle_meter", "playback", i - 1, 0, "") :
        i \in 1..NUM_PLAYBACK_CHANNELS}
    \cup {Entry(bool_path("input", c, i), "_handle_bool", "input_" \o c, i - 1, 0, "") :
        c \in BoolControls, i \in 1..NUM_INPUT_CHANNELS}
    \cup {Entry(bool_path("output", c, i), "_handle_bool", "output_" \o c, i - 1, 0, "") :
        c \in BoolControls \ {"phantom", "hiz"}, i \in 1..NUM_OUTPUT_CHANNELS}
    \cup {Entry(OSC_MIX_SEND_VOLUME(c[1], c[2], c[3]), "_handle_mix_update",
                c[2], c[3] - 1, c[1] - 1, "volume") :
            c \in ((1..NUM_OUTPUT_CHANNELS) \X {"input"} \X (1..NUM_INPUT_CHANNELS))
               \cup ((1..NUM_OUTPUT_CHANNELS) \X {"playback"} \X (1..NUM_PLAYBACK_CHANNELS))}
    \cup {Entry(OSC_MIX_SEND_PAN(c[1], c[2], c[3]), "_handle_mix_update",
                c[2], c[3] - 1, c[1] - 1, "pan") :
            c \in ((1..NUM_OUTPUT_CHANNELS) \X {"input"} \X (1..NUM_INPUT_CHANNELS))
               \cup ((1..NUM_OUTPUT_CHANNELS) \X {"playback"} \X (1..NUM_PLAYBACK_CHANNELS))}

\* a queued call on the main thread (QMetaObject.invokeMethod, QueuedConnection)
Event(sig, typ, i, j, v, tid) ==
    [sig |-> sig, typ |-> typ, i |-> i, j |-> j, v |-> v, tid |-> tid]

\* the queued call of message_received_signal.emit(address, list(args))
LogEvent(m, tid) ==
    [sig |-> "message_received_signal", typ |-> m.addr, i |-> 0, j |-> 0, v |-> 0,
     tid |-> tid, args |-> m.args]

\* isinstance(value, (float, int)) and isinstance(value, (int, float, bool)):
\* bool is a subclass of int, so both tests accept the same values
IsNumber(arg) == arg.t \in {"f", "i", "b"}
\* float(value) of a meter level, in hundredths
ToLevel(arg) == IF arg.t = "f" THEN arg.v ELSE arg.v * 100
\* float(value), in tenths
ToFloat(arg) == IF arg.t = "f" THEN arg.v ELSE arg.v * 10
\* a conversion that rounds to the nearest integer
ToInt_rounded(arg) == IF arg.t # "f" THEN arg.v
                      ELSE IF arg.v >= 0 THEN (arg.v + 5) \div 10
                      ELSE -((5 - arg.v) \div 10)

\* int(value): truncation toward zero
ToInt(arg) == IF arg.t # "f" THEN arg.v
              ELSE IF arg.v >= 0 THEN arg.v \div 10 ELSE -((-arg.v) \div 10)
\* bool(value)
ToBool(arg) == arg.v # 0

_handle_meter(e, args, t) ==
    IF Len(args) >= 1 /\ IsNumber(args[1])
    THEN <<Event("emit_meter_received", e.typ, e.idx, 0, ToLevel(args[1]), t)>>
    ELSE <<>>

_handle_gain(e, args, t) ==
    IF Len(args) >= 1 /\ IsNumber(args[1])
    THEN <<Event("emit_gain_received", e.typ, e.idx, 0, ToFloat(args[1]), t)>>
    ELSE <<>>

_handle_link(e, args, t) ==
    IF Len(args) >= 1 /\ IsNumber(args[1])
    THEN <<Event("emit_link_received", e.typ, e.idx, 0, IF ToBool(args[1]) THEN 1 ELSE 0, t)>>
    ELSE <<>>

\* the emitter _handle_bool picks from signal_map, "" when there is none
signal_map(control_type) ==
    IF control_type \in {"mute", "phase", "phantom", "hiz", "eq_enable",
                         "dyn_enable", "lc_enable"}
    THEN "emit_" \o control_type \o "_received"
    ELSE ""

_handle_bool(e, args, t) ==
    IF Len(args) >= 1 /\ IsNumber(args[1])
    THEN LET parts == split_1(e.typ)
         IN  IF Len(parts) # 2 THEN <<>>
             ELSE IF signal_map(parts[2]) = "" THEN <<>>
             ELSE <<Event(signal_map(parts[2]), parts[1], e.idx, 0,
                          IF ToBool(args[1]) THEN 1 ELSE 0, t)>>
    ELSE <<>>

_handle_mix_update(e, args, t) ==
    IF Len(args) >= 1
    THEN IF e.upd = "volume"
         THEN IF IsNumber(args[1])
              THEN <<Event("emit_mix_send_received", e.typ, e.idx, e.out, ToFloat(args[1]), t)>>
              ELSE <<>>
         ELSE IF e.upd = "pan"
         THEN IF IsNumber(args[1])
              THEN <<Event("emit_mix_pan_received", e.typ, e.idx, e.out, ToInt(args[1]), t)>>
              ELSE <<>>
         ELSE <<>>
    ELSE <<>>

\* a default handler that takes the message for a report of the first gain
_default_handler_as_gain(m, t) ==
    <<LogEvent(m, t), Event("emit_gain_received", "input", 0, 0, 0, t)>>

\* unmapped addresses: only the log line is queued
_default_handler(m, t) == <<LogEvent(m, t)>>

\* the calls a datagram queues on the main thread: every handler first emits
\* message_received_signal (the log line), then queues its notification
Dispatch(m, t) ==
    LET es == {e \in _map_osc_addresses : e.addr = m.addr}
    IN  IF es = {} THEN _default_handler(m, t)
        ELSE LET e == CHOOSE x \in es : TRUE
             IN  <<LogEvent(m, t)>> \o
                 CASE e.handler = "_handle_meter" -> _handle_meter(e, m.args, t)
                   [] e.handler = "_handle_gain" -> _handle_gain(e, m.args, t)
                   [] e.handler = "_handle_link" -> _handle_link(e, m.args, t)
                   [] e.handler = "_handle_bool" -> _handle_bool(e, m.args, t)
                   [] e.handler = "_handle_mix_update" -> _handle_mix_update(e, m.args, t)

\* the slot connect_signals attaches to each signal of the handler
SlotOf(sig) ==
    CASE sig = "connected"              -> "on_osc_connected"
      [] sig = "emit_disconnected"      -> "on_osc_disconnected"
      [] sig = "emit_gain_received"     -> "on_gain_received"
      [] sig = "emit_link_received"     -> "on_link_received"
      [] sig = "emit_mix_send_received" -> "on_mix_send_received"
      [] sig = "emit_mix_pan_received"  -> "on_mix_pan_received"
      [] sig = "message_received_signal" -> "log_osc_message"
      [] sig = "emit_meter_received"    -> "on_meter_received"
      [] sig \in {signal_map(c) : c \in BoolControls} -> "on_bool_received"

RunSlot(g, e) ==
    CASE e.sig = "connected"              -> on_osc_connected(g)
      [] e.sig = "emit_disconnected"      -> on_osc_disconnected(g)
      [] e.sig = "emit_gain_received"     -> on_gain_received(g, e.typ, e.i, e.v)
      [] e.sig = "emit_link_received"     -> on_link_received(g, e.typ, e.i, e.v = 1)
      [] e.sig = "emit_mix_send_received" -> on_mix_send_received(g, e.j, e.typ, e.i, e.v)
      [] e.sig = "emit_mix_pan_received"  -> on_mix_pan_received(g, e.j, e.typ, e.i, e.v)
      [] e.sig = "message_received_signal" -> log_osc_message(g, e.typ, e.args)
      [] e.sig = "emit_meter_received"    -> on_meter_received(g, e.typ, e.i, e.v)
      [] e.sig \in {signal_map(c) : c \in BoolControls} ->
                                             on_bool_received(g, e.typ, e.i, e.v = 1)

-----------------------------------------------------------------------------
(* Inputs of the model *)

TargetPorts == {8000, 65536}
InboundMsgs ==
    {Msg(OSC_INPUT_GAIN(2), <<F(125)>>),
     Msg(OSC_INPUT_STEREO(1), <<I(1)>>),
     Msg(OSC_MIX_SEND_VOLUME(1, "input", 1), <<F(-100)>>)}
TransportMsgs == {Msg(OSC_MIX_SEND_VOLUME(1, "input", 1), <<F(-100)>>)}
UserGainValues == {200}
\* 100.0 dB and -70.0 dB: outside the range of every gain and volume
RequestedGains == {1000, -700}
UserMixVolumes == {-200}
UserMixPans == {-50}
UserTabs == {"Inputs"}
\* the device's reports: levels, mix sends, arguments of other numeric
\* shapes, an argument that is no number, an address outside the table
ReportMsgs ==
    {Msg(OSC_PLAYBACK_LEVEL(1), <<F(50)>>),
     Msg(OSC_PLAYBACK_LEVEL(1), <<F(80)>>),
     Msg(OSC_INPUT_LEVEL(1), <<F(50)>>),
     Msg(OSC_MIX_SEND_VOLUME(1, "input", 1), <<F(-100)>>),
     Msg(OSC_MIX_SEND_VOLUME(1, "input", 1), <<I(-20)>>),
     Msg(OSC_MIX_SEND_PAN(1, "input", 1), <<F(27)>>),
     Msg(OSC_INPUT_GAIN(1), <<I(12)>>),
     Msg(OSC_INPUT_GAIN(1), <<S(1)>>),
     Msg(OSC_INPUT_MUTE(1), <<F(10)>>),
     Msg("/hardware/dspload", <<I(3)>>)}
UserToggles == {"link"}
\* reports for the last channel of a type and the last output
StoreMsgs ==
    {Msg(OSC_PLAYBACK_LEVEL(NUM_PLAYBACK_CHANNELS), <<F(50)>>),
     Msg(OSC_INPUT_LEVEL(1), <<F(50)>>),
     Msg(OSC_MIX_SEND_VOLUME(NUM_OUTPUT_CHANNELS, "playback", NUM_PLAYBACK_CHANNELS),
         <<F(-100)>>),
     Msg(OSC_MIX_SEND_PAN(1, "input", NUM_INPUT_CHANNELS), <<I(-30)>>)}
\* reports of a pan of 150 and of a volume of +10.0 dB: outside the ranges
\* of a mix send
RangeMsgs ==
    {Msg(OSC_MIX_SEND_PAN(1, "input", 1), <<I(150)>>),
     Msg(OSC_MIX_SEND_VOLUME(1, "input", 1), <<F(100)>>)}

-----------------------------------------------------------------------------
(* State *)

\* rep: the operation repeats the one before it (same operation, same
\* arguments)
Act(op, typ, i, j, v, calls) ==
    [op |-> op, typ |-> typ, i |-> i, j |-> j, v |-> v, calls |-> calls,
     printed |-> <<>>, raised |-> "",
     rep |-> (lastAction.op = op /\ lastAction.typ = typ /\ lastAction.i = i
              /\ lastAction.j = j /\ lastAction.v = v)]

NoHist == [bind |-> "no", conn |-> 0, disc |-> <<>>, handled |-> 0, looped |-> FALSE,
           stopReq |-> FALSE, stopSince |-> FALSE, exitBy |-> "none", delivered |-> 0]

\* OscmixControlGUI.__init__: init_ui (tabs, mixer view of output 0), connect_signals
InitGui ==
    LET blank == [widgets |-> [k \in ChannelKeys \cup MixerKeys |->
                                  IF k \in ChannelKeys THEN _populate_channel_tab[k] ELSE <<>>],
                  sends |-> <<>>, out_idx |-> 0, meters |-> NoMeters,
                  timer |-> FALSE, sent |-> <<>>, calls |-> <<>>,
                  send_message |-> "ok", printed |-> <<>>, raised |-> ""]
        built == _update_mixer_view(blank, 0)
    IN  [built EXCEPT !.widgets = connect_signals(@)]

Init ==
    /\ client = FALSE
    /\ server = 0
    /\ server_thread = 0
    /\ stop_event = FALSE
    /\ is_connected = FALSE
    /\ target_port = 0
    /\ pc = [t \in Threads |-> "unborn"]
    /\ server_error = [t \in Threads |-> "none"]
    /\ sock = [t \in Threads |-> "none"]
    /\ queue = <<>>
    /\ guiPc = "idle"
    /\ widgets = InitGui.widgets
    /\ current_mixer_sends = InitGui.sends
    /\ current_mixer_output_idx = InitGui.out_idx
    /\ last_meter_values = InitGui.meters
    /\ meter_timer = InitGui.timer
    /\ sent = InitGui.sent
    /\ hist = [t \in Threads |-> NoHist]
    /\ sessionDisc = [open |-> FALSE, n |-> 0]
    /\ totalDisc = 0
    /\ syncDisc = 0
    /\ nCalls = 0
    /\ nInbound = 0
    /\ nLocal = 0
    /\ lastAction = [op |-> "init", typ |-> "", i |-> 0, j |-> 0, v |-> 0,
                     calls |-> <<>>, printed |-> <<>>, raised |-> "",
                     rep |-> FALSE]

SetGui(g) ==
    /\ widgets' = g.widgets
    /\ current_mixer_sends' = g.sends
    /\ current_mixer_output_idx' = g.out_idx
    /\ last_meter_values' = g.meters
    /\ meter_timer' = g.timer
    /\ sent' = g.sent

\* Thread.is_alive()
Alive(t) == pc[t] \notin {"unborn", "dead"}
Born == {t \in Threads : pc[t] # "unborn"}

-----------------------------------------------------------------------------
(* The receive thread: OSCHandler._server_thread_target *)

\* self._is_connected = False; server_error = None
thread_enter(t) ==
    /\ pc[t] = "enter"
    /\ is_connected' = FALSE
    /\ server_error' = [server_error EXCEPT ![t] = "none"]
    /\ pc' = [pc EXCEPT ![t] = "bind"]
    /\ UNCHANGED <<client, server, server_thread, stop_event, target_port, sock,
                   queue, guiPc, guiVars, sent, histVars>>

\* self.server = BlockingOSCUDPServer(...): the bind succeeds
thread_bind_ok(t) ==
    /\ pc[t] = "bind"
    /\ server' = t
    /\ sock' = [sock EXCEPT ![t] = "open"]
    /\ pc' = [pc EXCEPT ![t] = "connected"]
    /\ hist' = [hist EXCEPT ![t].bind = "ok"]
    /\ UNCHANGED <<client, server_thread, stop_event, is_connected, target_port,
                   server_error, queue, guiPc, guiVars, sent,
                   sessionDisc, totalDisc, syncDisc, nCalls, nInbound, nLocal, lastAction>>

\* except OSError as e / except Exception as e: the reason text built from e
ErrorReason(kind, e) ==
    IF kind = "OSError" THEN "Error starting server (Port in use?): " \o e
    ELSE "Server error: " \o e

\* a bind failure that is swallowed: the thread goes on as if bound
thread_bind_fail_ignored(t) ==
    /\ pc[t] = "bind"
    /\ pc' = [pc EXCEPT ![t] = "connected"]
    /\ hist' = [hist EXCEPT ![t].bind = "failed"]
    /\ UNCHANGED <<handlerVars, server_error, sock, queue, guiPc, guiVars, sent,
                   sessionDisc, totalDisc, syncDisc, nCalls, nInbound, nLocal, lastAction>>

\* ... or raises OSError (port in use)
thread_bind_fail(t) ==
    /\ pc[t] = "bind"
    /\ server_error' = [server_error EXCEPT ![t] = ErrorReason("OSError", "bind error")]
    /\ pc' = [pc EXCEPT ![t] = "finally"]
    /\ hist' = [hist EXCEPT ![t].bind = "failed", ![t].exitBy = "bind"]
    /\ UNCHANGED <<handlerVars, sock, queue, guiPc, guiVars, sent,
                   sessionDisc, totalDisc, syncDisc, nCalls, nInbound, nLocal, lastAction>>

\* self._is_connected = True; invokeMethod(self, "connected", QueuedConnection)
thread_connected(t) ==
    /\ pc[t] = "connected"
    /\ is_connected' = TRUE
    /\ queue' = Append(queue, Event("connected", "", 0, 0, 0, t))
    /\ pc' = [pc EXCEPT ![t] = "loop"]
    /\ hist' = [hist EXCEPT ![t].conn = @ + 1]
    /\ UNCHANGED <<client, server, server_thread, stop_event, target_port,
                   server_error, sock, guiPc, guiVars, sent,
                   sessionDisc, totalDisc, syncDisc, nCalls, nInbound, nLocal, lastAction>>

\* while not self._stop_event.is_set():
thread_loop(t) ==
    /\ pc[t] = "loop"
    /\ IF stop_event
       THEN /\ pc' = [pc EXCEPT ![t] = "finally"]
            /\ hist' = [hist EXCEPT ![t].exitBy = "stop"]
       ELSE /\ pc' = [pc EXCEPT ![t] = "poll"]
            /\ hist' = [hist EXCEPT ![t].looped = TRUE]
    /\ UNCHANGED <<handlerVars, server_error, sock, queue, guiPc, guiVars, sent,
                   sessionDisc, totalDisc, syncDisc, nCalls, nInbound, nLocal, lastAction>>

\* self.server.handle_request_timeout(0.1): nothing arrived
thread_poll_timeout(t) ==
    /\ pc[t] = "poll"
    /\ pc' = [pc EXCEPT ![t] = "loop"]
    /\ UNCHANGED <<handlerVars, server_error, sock, queue, guiPc, guiVars, sent, histVars>>

\* a receive thread that runs the slots of a datagram itself
thread_poll_datagram_direct(t, m) ==
    /\ pc[t] = "poll"
    /\ nInbound < MaxInbound
    /\ nInbound' = nInbound + 1
    /\ LET evs == Dispatch(m, t)
           g1 == RunSlot(G, evs[1])
           g2 == IF Len(evs) = 2 THEN RunSlot(g1, evs[2]) ELSE g1
       IN  SetGui(g2)
    /\ pc' = [pc EXCEPT ![t] = "loop"]
    /\ hist' = [hist EXCEPT ![t].handled = @ + 1]
    /\ UNCHANGED <<handlerVars, server_error, sock, queue, guiPc,
                   sessionDisc, totalDisc, syncDisc, nCalls, nLocal, lastAction>>

\* ... a datagram arrived and its handler ran
thread_poll_datagram(t, m) ==
    /\ pc[t] = "poll"
    /\ nInbound < MaxInbound
    /\ nInbound' = nInbound + 1
    /\ queue' = queue \o Dispatch(m, t)
    /\ pc' = [pc EXCEPT ![t] = "loop"]
    /\ hist' = [hist EXCEPT ![t].handled = @ + 1]
    /\ UNCHANGED <<handlerVars, server_error, sock, guiPc, guiVars, sent,
                   sessionDisc, totalDisc, syncDisc, nCalls, nLocal, lastAction>>

\* a receive thread that ends on an error without its finally block
thread_poll_error_silent(t, kind) ==
    /\ pc[t] = "poll"
    /\ server_error' = [server_error EXCEPT ![t] = ErrorReason(kind, "receive error")]
    /\ pc' = [pc EXCEPT ![t] = "dead"]
    /\ hist' = [hist EXCEPT ![t].exitBy = "error"]
    /\ UNCHANGED <<handlerVars, sock, queue, guiPc, guiVars, sent,
                   sessionDisc, totalDisc, syncDisc, nCalls, nInbound, nLocal, lastAction>>

\* ... the call raised (OSError or another exception)
thread_poll_error(t, kind) ==
    /\ pc[t] = "poll"
    /\ server_error' = [server_error EXCEPT ![t] = ErrorReason(kind, "receive error")]
    /\ pc' = [pc EXCEPT ![t] = "finally"]
    /\ hist' = [hist EXCEPT ![t].exitBy = "error"]
    /\ UNCHANGED <<handlerVars, sock, queue, guiPc, guiVars, sent,
                   sessionDisc, totalDisc, syncDisc, nCalls, nInbound, nLocal, lastAction>>

\* finally: self._is_connected = False
thread_finally(t) ==
    /\ pc[t] = "finally"
    /\ is_connected' = FALSE
    /\ pc' = [pc EXCEPT ![t] = "close"]
    /\ UNCHANGED <<client, server, server_thread, stop_event, target_port,
                   server_error, sock, queue, guiPc, guiVars, sent, histVars>>

\* if self.server: self.server.server_close()
thread_close(t) ==
    /\ pc[t] = "close"
    /\ sock' = IF server # 0 THEN [sock EXCEPT ![server] = "closed"] ELSE sock
    /\ pc' = [pc EXCEPT ![t] = "emit"]
    /\ UNCHANGED <<handlerVars, server_error, queue, guiPc, guiVars, sent, histVars>>

\* invokeMethod(self, "emit_disconnected", QueuedConnection, disconnect_reason)
thread_emit_disconnected(t) ==
    LET disconnect_reason == IF server_error[t] # "none" THEN server_error[t]
                             ELSE "Disconnected normally"
    IN  /\ pc[t] = "emit"
        /\ queue' = Append(queue, Event("emit_disconnected", disconnect_reason, 0, 0, 0, t))
        /\ pc' = [pc EXCEPT ![t] = "dead"]
        /\ hist' = [hist EXCEPT ![t].disc = Append(@, disconnect_reason)]
        /\ UNCHANGED <<handlerVars, server_error, sock, guiPc, guiVars, sent,
                       sessionDisc, totalDisc, syncDisc, nCalls, nInbound, nLocal, lastAction>>

-----------------------------------------------------------------------------
(* The caller's thread: OSCHandler.start / stop *)

\* a Disconnected notification reaches the subscribers (on_osc_disconnected)
NotifyDisconnected ==
    /\ sessionDisc' = [sessionDisc EXCEPT !.n = @ + 1]
    /\ totalDisc' = totalDisc + 1

\* a refused start() that has stored the target before its test
start_refused_retargets(port) ==
    /\ lastAction' = Act("start_refused", "", 0, 0, port, <<>>)
    /\ target_port' = port
    /\ UNCHANGED <<client, server, server_thread, stop_event, is_connected,
                   threadVars, queue, guiPc, guiVars, sent,
                   hist, sessionDisc, totalDisc, syncDisc, nInbound, nLocal>>

\* "Already running.": return False
start_refused(port) ==
    /\ lastAction' = Act("start_refused", "", 0, 0, port, <<>>)
    /\ UNCHANGED <<handlerVars, threadVars, queue, guiPc, guiVars, sent,
                   hist, sessionDisc, totalDisc, syncDisc, nInbound, nLocal>>

\* a failed start() that has cleared the stop event before the port test
start_failed_clears(port) ==
    /\ target_port' = port
    /\ stop_event' = FALSE
    /\ SetGui(on_osc_disconnected(G))
    /\ sessionDisc' = [open |-> FALSE, n |-> 0]
    /\ totalDisc' = totalDisc + 1
    /\ syncDisc' = syncDisc + 1
    /\ lastAction' = Act("start_failed", "", 0, 0, port, <<>>)
    /\ UNCHANGED <<client, server, server_thread, is_connected,
                   threadVars, queue, guiPc, hist, nInbound, nLocal>>

\* ValueError: self.emit_disconnected("Client config error: ..."); return False
start_failed(port) ==
    /\ target_port' = port
    /\ SetGui(on_osc_disconnected(G))
    /\ sessionDisc' = [open |-> FALSE, n |-> 0]
    /\ totalDisc' = totalDisc + 1
    /\ syncDisc' = syncDisc + 1
    /\ lastAction' = Act("start_failed", "", 0, 0, port, <<>>)
    /\ UNCHANGED <<client, server, server_thread, stop_event, is_connected,
                   threadVars, queue, guiPc, hist, nInbound, nLocal>>

\* start(target_ip, target_port); cleared is the stop event as the call leaves it
launch(port, cleared) ==
    /\ guiPc = "idle"
    /\ nCalls < MaxCalls
    /\ nCalls' = nCalls + 1
    /\ IF server_thread # 0 /\ Alive(server_thread)
       THEN start_refused(port)
       ELSE IF ~(0 < port /\ port < 65536)
       THEN start_failed(port)
       ELSE \E t \in Threads :
            /\ pc[t] = "unborn"
            /\ \A u \in Threads : u < t => pc[u] # "unborn"
            /\ target_port' = port
            /\ client' = TRUE
            /\ stop_event' = cleared
            /\ server_thread' = t
            /\ pc' = [pc EXCEPT ![t] = "enter"]
            /\ sessionDisc' = [open |-> TRUE, n |-> 0]
            /\ lastAction' = Act("start", "", t, 0, port, <<>>)
            /\ UNCHANGED <<server, is_connected, server_error, sock, queue, guiPc,
                           guiVars, sent, hist, totalDisc, syncDisc, nInbound, nLocal>>

\* a start() that leaves the stop event as it finds it
start_keeps_stop_event(port) == launch(port, stop_event)

\* self._stop_event.clear() before the thread is created
start(port) == launch(port, FALSE)

\* stop(), up to the join
stop ==
    /\ guiPc = "idle"
    /\ nCalls < MaxCalls
    /\ nCalls' = nCalls + 1
    /\ IF server_thread = 0 \/ ~Alive(server_thread)
       THEN /\ IF ~is_connected
               THEN /\ SetGui(on_osc_disconnected(G))
                    /\ NotifyDisconnected
                    /\ syncDisc' = syncDisc + 1
               ELSE UNCHANGED <<guiVars, sent, sessionDisc, totalDisc, syncDisc>>
            /\ is_connected' = FALSE
            /\ lastAction' = Act("stop_not_running", "", 0, 0, 0, <<>>)
            /\ UNCHANGED <<client, server, server_thread, stop_event, target_port,
                           threadVars, queue, guiPc, hist, nInbound, nLocal>>
       ELSE /\ stop_event' = TRUE
            /\ guiPc' = "join"
            /\ hist' = [t \in Threads |->
                          IF pc[t] = "unborn" THEN hist[t]
                          ELSE [hist[t] EXCEPT !.stopSince = TRUE,
                                               !.stopReq = (@ \/ t = server_thread)]]
            /\ lastAction' = Act("stop", "", server_thread, 0, 0, <<>>)
            /\ UNCHANGED <<client, server, server_thread, is_connected, target_port,
                           threadVars, queue, guiVars, sent,
                           sessionDisc, totalDisc, syncDisc, nInbound, nLocal>>

\* self.server_thread.join(timeout=1.0) returns: the thread ended, or the
\* timeout elapsed with the thread still alive
join(t) == ~Alive(t) \/ Alive(t)

\* the join returns; self.server_thread = None; self.server = None
stop_join ==
    /\ guiPc = "join"
    /\ join(server_thread)
    /\ server_thread' = 0
    /\ server' = 0
    /\ guiPc' = "clear"
    /\ UNCHANGED <<client, stop_event, is_connected, target_port, threadVars, queue,
                   guiVars, sent, histVars>>

\* the handler fields stop() has cleared when it returns after the join
stop_cleared == [client |-> FALSE, is_connected |-> FALSE]

\* self.client = None; self._is_connected = False; return
stop_return ==
    /\ guiPc = "clear"
    /\ client' = stop_cleared.client
    /\ is_connected' = stop_cleared.is_connected
    /\ guiPc' = "idle"
    /\ lastAction' = Act("stop_return", "", 0, 0, 0, <<>>)
    /\ UNCHANGED <<server, server_thread, stop_event, target_port, threadVars, queue,
                   guiVars, sent, hist, sessionDisc, totalDisc, syncDisc,
                   nCalls, nInbound, nLocal>>

-----------------------------------------------------------------------------
(* The main thread's event loop runs one queued call *)

\* g0 is the GUI state with the outcome of the step's transmissions
RunQueued(g0) ==
    /\ guiPc = "idle"
    /\ queue # <<>>
    /\ LET e == Head(queue)
           g == RunSlot(g0, e)
       IN  /\ queue' = Tail(queue)
           /\ SetGui(g)
           /\ lastAction' = IF e.sig = "message_received_signal" THEN lastAction
                            ELSE [Act(SlotOf(e.sig), e.typ, e.i, e.j, e.v, g.calls)
                                    EXCEPT !.printed = g.printed, !.raised = g.raised]
           /\ IF e.sig = "emit_disconnected"
              THEN /\ NotifyDisconnected
                   /\ hist' = [hist EXCEPT ![e.tid].delivered = @ + 1]
              ELSE UNCHANGED <<sessionDisc, totalDisc, hist>>
    /\ UNCHANGED <<handlerVars, threadVars, guiPc, syncDisc, nCalls, nInbound, nLocal>>

deliver == RunQueued(G)

\* on_osc_connected runs while the socket refuses the /refresh message
deliver_send_error ==
    /\ client /\ is_connected
    /\ queue # <<>>
    /\ SlotOf(Head(queue).sig) = "on_osc_connected"
    /\ RunQueued(Gui("raises"))

\* the meter timer fires (it runs between on_osc_connected and
\* on_osc_disconnected): update_gui_meters; lastAction.i counts the levels
\* that were stored
meter_timer_timeout ==
    /\ guiPc = "idle"
    /\ meter_timer
    /\ LET g == update_gui_meters(G)
           n == Cardinality(DOMAIN last_meter_values["input"])
                + Cardinality(DOMAIN last_meter_values["output"])
                + Cardinality(DOMAIN last_meter_values["playback"])
       IN  /\ SetGui(g)
           /\ lastAction' = Act("update_gui_meters", "", n, 0, 0, g.calls)
    /\ UNCHANGED <<handlerVars, threadVars, queue, guiPc, hist, sessionDisc, totalDisc,
                   syncDisc, nCalls, nInbound, nLocal>>

-----------------------------------------------------------------------------
(* The user edits a widget that is visible and enabled *)

\* at most bound edits in a run
UserStepWithin(bound, op, typ, i, j, v, g) ==
    /\ guiPc = "idle"
    /\ nLocal < bound
    /\ nLocal' = nLocal + 1
    /\ SetGui(g)
    /\ lastAction' = [Act(op, typ, i, j, v, g.calls)
                        EXCEPT !.printed = g.printed, !.raised = g.raised]
    /\ UNCHANGED <<handlerVars, threadVars, queue, guiPc, hist, sessionDisc, totalDisc,
                   syncDisc, nCalls, nInbound>>

UserStep(op, typ, i, j, v, g) == UserStepWithin(MaxLocal, op, typ, i, j, v, g)

Editable(w, v) == ~IsNone(w) /\ w.enabled /\ w.visible /\ w.lo <= v /\ v <= w.hi /\ v # w.value

\* the user sets the gain / volume spin box of channel i of a tab
user_set_gain(type_prefix, i, v) ==
    /\ i < TabCount(type_prefix)
    /\ Editable(widgets[ChannelKey(type_prefix, "gain_spinbox")][i + 1], v)
    /\ UserStep("user_set_gain", type_prefix, i, 0, v,
                gain_spinbox_valueChanged(G, type_prefix, i, v))

\* the user asks the gain / volume spin box of channel i of a tab for a value
\* outside its range: the spin box takes the nearest bound (setValue) or
\* keeps the value it has (a typed text that the validator turns down)
user_request_gain(type_prefix, i, v) ==
    /\ i < TabCount(type_prefix)
    /\ LET w == widgets[ChannelKey(type_prefix, "gain_spinbox")][i + 1]
       IN  /\ ~IsNone(w) /\ w.enabled /\ w.visible
           /\ (v < w.lo \/ v > w.hi)
    /\ \E kept \in BOOLEAN :
          UserStep("user_request_gain", type_prefix, i, 0, v,
                   IF kept THEN G ELSE gain_spinbox_valueChanged(G, type_prefix, i, v))

\* the user clicks a check box of channel i of a tab
user_toggle(type_prefix, control, i) ==
    /\ i < TabCount(type_prefix)
    /\ LET w == widgets[ChannelKey(type_prefix, control)][i + 1]
       IN  /\ Editable(w, 1 - w.value)
           /\ UserStep("user_toggle_" \o control, type_prefix, i, 0, 1 - w.value,
                       checkbox_stateChanged(G, type_prefix, control, i, w.value = 0))

\* the two edits in runs of up to MaxEdits edits
edit_gain(type_prefix, i, v) ==
    /\ i < TabCount(type_prefix)
    /\ Editable(widgets[ChannelKey(type_prefix, "gain_spinbox")][i + 1], v)
    /\ UserStepWithin(MaxEdits, "user_set_gain", type_prefix, i, 0, v,
                      gain_spinbox_valueChanged(G, type_prefix, i, v))

edit_toggle(type_prefix, control, i) ==
    /\ i < TabCount(type_prefix)
    /\ LET w == widgets[ChannelKey(type_prefix, control)][i + 1]
       IN  /\ Editable(w, 1 - w.value)
           /\ UserStepWithin(MaxEdits, "user_toggle_" \o control, type_prefix, i, 0,
                             1 - w.value,
                             checkbox_stateChanged(G, type_prefix, control, i, w.value = 0))

\* the user sets the volume spin box of strip i of the displayed mix
user_set_mix_gain(in_type, i, v) ==
    /\ i < TypeCount(in_type)
    /\ Editable(widgets["mixer_" \o in_type \o "_gain_spinbox"][i + 1], v)
    /\ UserStep("user_set_mix_gain", in_type, i, current_mixer_output_idx, v,
                mix_gain_spinbox_valueChanged(G, in_type, i, v))

\* the same edit while the socket refuses the message
user_set_mix_gain_send_error(in_type, i, v) ==
    /\ client /\ is_connected
    /\ i < TypeCount(in_type)
    /\ Editable(widgets["mixer_" \o in_type \o "_gain_spinbox"][i + 1], v)
    /\ UserStep("user_set_mix_gain", in_type, i, current_mixer_output_idx, v,
                mix_gain_spinbox_valueChanged(Gui("raises"), in_type, i, v))

\* the user sets the pan spin box of strip i of the displayed mix
user_set_mix_pan(in_type, i, v) ==
    /\ i < TypeCount(in_type)
    /\ Editable(widgets["mixer_" \o in_type \o "_pan_spinbox"][i + 1], v)
    /\ UserStep("user_set_mix_pan", in_type, i, current_mixer_output_idx, v,
                mix_pan_spinbox_valueChanged(G, in_type, i, v))

\* the user picks another output in the mixer tab
user_select_output(index) ==
    /\ index # current_mixer_output_idx
    /\ UserStep("user_select_output", "", index, 0, 0, _on_mixer_output_selected(G, index))

-----------------------------------------------------------------------------
(* Specifications *)

ThreadNext(msgs) ==
    \E t \in Threads :
        \/ thread_enter(t)
        \/ thread_bind_ok(t)
        \/ thread_bind_fail(t)
        \/ thread_connected(t)
        \/ thread_loop(t)
        \/ thread_poll_timeout(t)
        \/ \E m \in msgs : thread_poll_datagram(t, m)
        \/ \E kind \in {"OSError", "Exception"} : thread_poll_error(t, kind)
        \/ thread_finally(t)
        \/ thread_close(t)
        \/ thread_emit_disconnected(t)

CallerNext ==
    \/ \E port \in TargetPorts : start(port)
    \/ stop
    \/ stop_join
    \/ stop_return
    \/ deliver

UserNext ==
    \/ \E tp \in UserTabs, i \in 0..(NUM_INPUT_CHANNELS - 1), v \in UserGainValues :
          user_set_gain(tp, i, v)
    \/ \E tp \in UserTabs, c \in UserToggles, i \in 0..(NUM_INPUT_CHANNELS - 1) :
          user_toggle(tp, c, i)
    \/ \E i \in 0..(NUM_INPUT_CHANNELS - 1), v \in UserMixVolumes :
          user_set_mix_gain("input", i, v)
    \/ \E i \in 0..(NUM_INPUT_CHANNELS - 1), v \in UserMixPans :
          user_set_mix_pan("input", i, v)
    \/ \E index \in 0..(NUM_OUTPUT_CHANNELS - 1) : user_select_output(index)

\* the transport: sessions started and stopped, datagrams of one kind
TransportNext == ThreadNext(TransportMsgs) \/ CallerNext
Spec == Init /\ [][TransportNext]_vars

\* a session that the user starts and that does not fail
Session(msgs) ==
    \E t \in Threads :
        \/ thread_enter(t)
        \/ thread_bind_ok(t)
        \/ thread_connected(t)
        \/ thread_loop(t)
        \/ thread_poll_timeout(t)
        \/ \E m \in msgs : thread_poll_datagram(t, m)
SessionNext == Session(InboundMsgs)

\* the console: a session, the device's reports and the user's edits
ConsoleNext ==
    \/ SessionNext
    \/ start(8000)
    \/ deliver
    \/ UserNext
Console == Init /\ [][ConsoleNext]_vars

\* the inbound path: a session, the device's reports of every kind, the
\* event loop and the meter timer
ReportsNext ==
    \/ Session(ReportMsgs)
    \/ start(8000)
    \/ deliver
    \/ meter_timer_timeout
Reports == Init /\ [][ReportsNext]_vars

\* the two caches: a session, level and mix reports, the meter timer, and
\* the user's mix edits and choice of the displayed output; a transmission
\* may fail
StoresNext ==
    \/ Session(StoreMsgs)
    \/ start(8000)
    \/ deliver
    \/ deliver_send_error
    \/ meter_timer_timeout
    \/ \E i \in 0..(NUM_INPUT_CHANNELS - 1), v \in UserMixVolumes :
          user_set_mix_gain("input", i, v)
    \/ \E i \in 0..(NUM_INPUT_CHANNELS - 1), v \in UserMixVolumes :
          user_set_mix_gain_send_error("input", i, v)
    \/ \E index \in 0..(NUM_OUTPUT_CHANNELS - 1) : user_select_output(index)
Stores == Init /\ [][StoresNext]_vars

\* gain and volume requests outside the range, during a session with reports
RequestsNext ==
    \/ SessionNext
    \/ start(8000)
    \/ deliver
    \/ \E tp \in {"Inputs", "Outputs"}, i \in 0..(NUM_INPUT_CHANNELS - 1),
          v \in RequestedGains : user_request_gain(tp, i, v)
Requests == Init /\ [][RequestsNext]_vars

\* a pair of inputs that the user links and unlinks, and the gain of its
\* second channel that the user sets, during a session with reports
UnlinkNext ==
    \/ SessionNext
    \/ start(8000)
    \/ deliver
    \/ edit_toggle("Inputs", "link", 0)
    \/ \E v \in UserGainValues : edit_gain("Inputs", 1, v)
Unlink == Init /\ [][UnlinkNext]_vars

\* mix reports outside the ranges, and the user's edits of the mix sends
RangesNext ==
    \/ Session(RangeMsgs)
    \/ start(8000)
    \/ deliver
    \/ \E i \in 0..(NUM_INPUT_CHANNELS - 1), v \in UserMixVolumes :
          user_set_mix_gain("input", i, v)
    \/ \E i \in 0..(NUM_INPUT_CHANNELS - 1), v \in UserMixPans :
          user_set_mix_pan("input", i, v)
Ranges == Init /\ [][RangesNext]_vars

\* sessions that end on a receive error and are started again, with the
\* user's edits of a gain and of a mix send
ReconnectNext ==
    \/ \E t \in Threads :
          \/ thread_enter(t)
          \/ thread_bind_ok(t)
          \/ thread_connected(t)
          \/ thread_loop(t)
          \/ thread_poll_timeout(t)
          \/ \E m \in TransportMsgs : thread_poll_datagram(t, m)
          \/ thread_poll_error(t, "OSError")
          \/ thread_finally(t)
          \/ thread_close(t)
          \/ thread_emit_disconnected(t)
    \/ start(8000)
    \/ deliver
    \/ \E i \in 0..(NUM_INPUT_CHANNELS - 1), v \in UserGainValues :
          user_set_gain("Inputs", i, v)
    \/ \E i \in 0..(NUM_INPUT_CHANNELS - 1), v \in UserMixVolumes :
          user_set_mix_gain("input", i, v)
Reconnect == Init /\ [][ReconnectNext]_vars

-----------------------------------------------------------------------------
(* Properties of the transport (specification Spec) *)

Exited(t) == pc[t] \in {"finally", "close", "emit", "dead"}
\* the reason a thread that has ended reports
ReasonOf(t) == IF hist[t].exitBy = "stop" THEN "Disconnected normally" ELSE server_error[t]
RECURSIVE DeliveredUpTo(_)
DeliveredUpTo(n) == IF n = 0 THEN 0 ELSE hist[n].delivered + DeliveredUpTo(n - 1)

C2_ConnectedOnlyAfterBind ==
    \A t \in Threads :
        /\ hist[t].conn > 0 => hist[t].bind = "ok"
        /\ \A n \in 1..Len(queue) :
              (queue[n].sig = "connected" /\ queue[n].tid = t) => hist[t].bind = "ok"
        /\ hist[t].bind = "failed" =>
              /\ hist[t].conn = 0
              /\ ~hist[t].looped
              /\ hist[t].handled = 0
              /\ Exited(t)
              /\ pc[t] = "dead" => hist[t].disc = <<ErrorReason("OSError", "bind error")>>

\* a bind failure whose Disconnected reached the subscribers
C2_Witness ==
    \E t \in Threads :
        hist[t].bind = "failed" /\ pc[t] = "dead" /\ hist[t].delivered = 1

\* C3: once stop() was called on a running session, its receive thread
\* leaves the loop at its next check of the stop event.
C3_StopObserved ==
    [][\A t \in Threads :
          (hist[t].stopReq /\ pc[t] = "loop" /\ pc'[t] # "loop") => pc'[t] = "finally"]_vars

\* stop() returns to its caller
StopReturns ==
    \/ guiPc = "clear" /\ guiPc' = "idle"
    \/ nCalls' = nCalls + 1 /\ lastAction'.op = "stop_not_running"

\* C4: when stop() returns, the handler holds no thread, no server and no
\* client, and its connected flag is false.
C4_StopReleases ==
    [][StopReturns =>
          (server_thread' = 0 /\ server' = 0 /\ ~client' /\ ~is_connected')]_vars

\* C5: a receive loop starts only in a start() call, a thread that left its
\* loop never re-enters it, a start() that launches a thread leaves the stop
\* event clear, and a thread is cancelled only by a stop() made after its launch.
C5_NoRestartNoStaleStop ==
    /\ [][\A t \in Threads :
             /\ (pc[t] = "unborn" /\ pc'[t] # "unborn") =>
                   /\ lastAction'.op = "start" /\ lastAction'.i = t
                   /\ nCalls' = nCalls + 1
                   /\ pc'[t] = "enter"
                   /\ ~stop_event'
             /\ Exited(t) => Exited(t)'
             /\ pc[t] = "dead" => pc'[t] = "dead"]_vars
    /\ [](\A t \in Threads : hist[t].exitBy = "stop" => hist[t].stopSince)

\* a second session that polls after the first was stopped
C5_Witness ==
    \E t, u \in Threads :
        /\ t # u
        /\ pc[t] = "dead" /\ hist[t].exitBy = "stop"
        /\ pc[u] = "poll" /\ ~hist[u].stopSince

-----------------------------------------------------------------------------
(* Properties of the console (specification Console) *)

\* the tab that shows the channels of a type
TabOf(channel_type) == IF channel_type = "input" THEN "Inputs" ELSE "Outputs"
\* what the console holds for channel i of a tab: its gain and its link flag
ChannelGain(w, type_prefix, i) == w[ChannelKey(type_prefix, "gain_spinbox")][i + 1].value
LinkFlag(w, type_prefix, i) == w[ChannelKey(type_prefix, "link")][i + 1].value = 1
\* the gain address of channel i of a tab
GainAddress(type_prefix, i) ==
    IF type_prefix = "Inputs" THEN OSC_INPUT_GAIN(i + 1) ELSE OSC_OUTPUT_VOLUME(i + 1)

\* the step is an edit by the user / the delivery of a queued notification
UserEdit(op) == nLocal' = nLocal + 1 /\ lastAction'.op = op
Delivery(op) == queue # <<>> /\ queue' = Tail(queue) /\ SlotOf(Head(queue).sig) = op

\* C6: while the link flag of an even channel i is set, a local gain write to
\* channel i + 1 is refused: nothing is sent and the console's state of the
\* channel is unchanged.
C6_FollowerLocked ==
    [][\A i \in 0..(NUM_INPUT_CHANNELS - 2) :
          ((i % 2) = 0 /\ LinkFlag(widgets, "Inputs", i)
             /\ UserEdit("user_set_gain") /\ lastAction'.i = i + 1)
          => (sent' = sent /\ widgets' = widgets)]_vars

\* C7: a gain or mix-send report of the device is written to the console's
\* state when it is delivered.
C7_ReportWritten ==
    [][/\ Delivery("on_gain_received") =>
             ChannelGain(widgets', TabOf(lastAction'.typ), lastAction'.i) = lastAction'.v
       /\ Delivery("on_mix_send_received") =>
             CacheGet(current_mixer_sends',
                      Cell(lastAction'.j, lastAction'.typ, lastAction'.i)).volume
                = lastAction'.v]_vars

\* C8: while connected, a local gain write to channel i sends exactly one
\* message, to the gain address of channel i + 1, carrying the value.
C8_GainSent ==
    [][(client /\ is_connected /\ UserEdit("user_set_gain")
          /\ ~(lastAction'.i % 2 = 1 /\ LinkFlag(widgets, lastAction'.typ, lastAction'.i - 1)))
       => sent' = Append(sent, Msg(GainAddress(lastAction'.typ, lastAction'.i),
                                   <<F(lastAction'.v)>>))]_vars

\* C9: a local write shows in the console's state at once, and a report of
\* the device for the same cell, delivered later, replaces it.
C9_WriteThenReport ==
    [][/\ UserEdit("user_set_gain") =>
             ChannelGain(widgets', lastAction'.typ, lastAction'.i) = lastAction'.v
       /\ UserEdit("user_set_mix_gain") =>
             CacheGet(current_mixer_sends',
                      Cell(lastAction'.j, lastAction'.typ, lastAction'.i)).volume
                = lastAction'.v
       /\ (Delivery("on_gain_received")
             /\ ChannelGain(widgets, TabOf(lastAction'.typ), lastAction'.i) # lastAction'.v)
          => ChannelGain(widgets', TabOf(lastAction'.typ), lastAction'.i) = lastAction'.v
       /\ Delivery("on_mix_send_received") =>
             CacheGet(current_mixer_sends',
                      Cell(lastAction'.j, lastAction'.typ, lastAction'.i)).volume
                = lastAction'.v]_vars

\* the message of a mix-send write of the user: the set address of the cell
\* with (volume, pan)
MixSet(a, volume, pan) ==
    Msg(OSC_MIX_SEND_SET(a.j + 1, a.typ, a.i + 1), <<F(volume), I(pan)>>)

\* C10: a local mix-send write hands the transport exactly one message with
\* both fields of the cell: a volume write carries the cell's cached pan (0 for
\* a cell not written before), a pan write carries the cell's cached volume
\* (the one a preceding volume write set), and the write is cached; while
\* connected that message, and nothing else, is sent.
C10_MixWriteCarriesBoth ==
    [][LET a == lastAction'
           cell == Cell(a.j, a.typ, a.i)
           old == CacheGet(current_mixer_sends, cell)
       IN  /\ UserEdit("user_set_mix_gain") =>
                 /\ a.calls = <<MixSet(a, a.v, old.pan)>>
                 /\ current_mixer_sends'[cell] = [volume |-> a.v, pan |-> old.pan]
                 /\ sent' = IF client /\ is_connected THEN sent \o a.calls ELSE sent
           /\ UserEdit("user_set_mix_pan") =>
                 /\ a.calls = <<MixSet(a, old.volume, a.v)>>
                 /\ current_mixer_sends'[cell] = [volume |-> old.volume, pan |-> a.v]
                 /\ sent' = IF client /\ is_connected THEN sent \o a.calls ELSE sent]_vars

\* a volume write on a fresh cell sent with pan 0, then a pan write on the
\* same cell sent with that volume
C10_Witness ==
    /\ Len(sent) >= 2
    /\ \E v \in UserMixVolumes, q \in UserMixPans :
          /\ lastAction.op = "user_set_mix_pan"
          /\ sent[Len(sent) - 1] = MixSet(lastAction, v, 0)
          /\ sent[Len(sent)] = MixSet(lastAction, v, q)
          /\ v # CellDefault.volume

-----------------------------------------------------------------------------
(* Properties of the inbound path (specification Reports) *)

\* the addresses of the table
Mapped == {e.addr : e \in _map_osc_addresses}
\* the step is the receipt of one datagram; Received is what it queued
Receipt == nInbound' = nInbound + 1
Received == SubSeq(queue', Len(queue) + 1, Len(queue'))
\* the console's store and the wire
Store == <<widgets, current_mixer_sends, current_mixer_output_idx, last_meter_values,
           meter_timer, sent>>
ReportSlots == {"on_meter_received", "on_gain_received", "on_link_received",
                "on_bool_received", "on_mix_send_received", "on_mix_pan_received"}

\* C11: delivering a report that repeats the one delivered just before it
\* (same address, same value) leaves the console's store as it was after the
\* first; and every received report of a mapped address with a numeric value
\* queues its own notification behind its log line, repeated or not.
C11_TwiceIsOnce ==
    [][/\ \A op \in ReportSlots :
             (Delivery(op) /\ lastAction'.rep) => Store' = Store
       /\ (Receipt /\ Len(Received) >= 1 /\ Received[1].typ \in Mapped
             /\ Len(Received[1].args) >= 1 /\ Received[1].args[1].t \in {"f", "i", "b"})
          => (Len(Received) = 2 /\ SlotOf(Received[2].sig) \in ReportSlots)]_vars

\* the same mix-send report was received twice and delivered twice, and the
\* cell holds its value
C11_Witness ==
    /\ queue = <<>>
    /\ \E t \in Threads : hist[t].handled = 2
    /\ lastAction.op = "on_mix_send_received"
    /\ lastAction.rep
    /\ Cell(lastAction.j, lastAction.typ, lastAction.i) \in DOMAIN current_mixer_sends
    /\ current_mixer_sends[Cell(lastAction.j, lastAction.typ, lastAction.i)].volume
          = lastAction.v

-----------------------------------------------------------------------------
(* Properties of reconnecting (specification Reconnect) *)

\* the values the channel controls show, by key; the meter bars left out
ChannelParams(w) ==
    [k \in {ChannelKey(p[1], p[2]) : p \in TabPrefixes \X (ChannelControls \ {"meter"})} |->
        [n \in 1..Len(w[k]) |-> w[k][n].value]]
\* no level pending, every channel control at the value it is created with,
\* every cached mix send at (-65.0, 0)
CleanSlate(w, sends, meters) ==
    /\ meters = NoMeters
    /\ ChannelParams(w) = ChannelParams(InitGui.widgets)
    /\ \A cell \in DOMAIN sends : sends[cell] = CellDefault

\* C12: when a Disconnected notification has been handled the pending
\* levels, the channel parameters and the mix-send cache hold their defaults,
\* and they still do when the next Connected notification is handled.
C12_CleanSlate ==
    [][/\ Delivery("on_osc_disconnected") =>
             CleanSlate(widgets', current_mixer_sends', last_meter_values')
       /\ (Delivery("on_osc_connected") /\ totalDisc > 0) =>
             CleanSlate(widgets', current_mixer_sends', last_meter_values')]_vars

-----------------------------------------------------------------------------
(* Properties of the meters (specification Reports) *)

\* the tab whose meter bars show the levels of a channel type
MeterTab(type_key) ==
    CASE type_key = "input"    -> "Inputs"
      [] type_key = "output"   -> "Outputs"
      [] type_key = "playback" -> "Playback"
\* the level the meter bar of channel i of a type displays
Displayed(w, type_key, i) == w[ChannelKey(MeterTab(type_key), "meter")][i + 1].value
\* the step is a tick of the meter timer
Tick == lastAction' # lastAction /\ lastAction'.op = "update_gui_meters"

\* C13: a tick of the meter timer shows, for every channel of every type
\* with a level pending, the last level received for it, and leaves no level
\* pending.
C13_TickShowsLatest ==
    [][Tick =>
          /\ \A type_key \in DOMAIN last_meter_values :
                \A i \in DOMAIN last_meter_values[type_key] :
                   Displayed(widgets', type_key, i)
                      = float_to_slider_linear(last_meter_values[type_key][i])
          /\ last_meter_values' = NoMeters]_vars


-----------------------------------------------------------------------------
(* Properties of the order of the reports (specification Reports) *)

\* two queued notifications are reports for the same cell
SameCell(e1, e2) == e1.sig = e2.sig /\ e1.typ = e2.typ /\ e1.i = e2.i /\ e1.j = e2.j
\* the value the console holds for the cell a notification reports
StoredFor(e, w, sends, meters) ==
    CASE e.sig = "emit_gain_received"     -> ChannelGain(w, TabOf(e.typ), e.i)
      [] e.sig = "emit_mix_send_received" -> CacheGet(sends, Cell(e.j, e.typ, e.i)).volume
      [] e.sig = "emit_mix_pan_received"  -> CacheGet(sends, Cell(e.j, e.typ, e.i)).pan
      [] e.sig = "emit_meter_received"    ->
            IF e.i \in DOMAIN meters[e.typ] THEN meters[e.typ][e.i] ELSE -1
\* the step delivers the last report queued for its cell
LastForCell ==
    /\ queue # <<>>
    /\ queue' = Tail(queue)
    /\ Head(queue).sig \in {"emit_gain_received", "emit_mix_send_received",
                             "emit_mix_pan_received", "emit_meter_received"}
    /\ \A k \in 2..Len(queue) : ~SameCell(queue[k], Head(queue))

\* C15: the reports are applied in the order of their receipt: the queue
\* grows at its tail and is served from its head, and the delivery of the last
\* report queued for a cell leaves its value as the cell's stored value.
C15_LastReceivedWins ==
    [][/\ \/ queue' = queue
          \/ (queue # <<>> /\ queue' = Tail(queue))
          \/ (Len(queue') > Len(queue) /\ SubSeq(queue', 1, Len(queue)) = queue)
       /\ LastForCell =>
             StoredFor(Head(queue), widgets', current_mixer_sends', last_meter_values')
                = Head(queue).v]_vars

-----------------------------------------------------------------------------
(* Who writes the console's store (specification Reports) *)

\* the step is taken by a receive thread
ThreadStep == \E t \in Threads : pc[t] # "unborn" /\ pc'[t] # pc[t]

\* C16: a step of a receive thread leaves the mix-send cache, the pending
\* levels and the widgets alone and at most appends calls to the queue of the
\* main thread; the cache and the pending levels change only in steps of the
\* main thread, taken one at a time while it is idle.
C16_StoreOnlyFromGui ==
    [][/\ ThreadStep =>
             /\ current_mixer_sends' = current_mixer_sends
             /\ last_meter_values' = last_meter_values
             /\ widgets' = widgets
             /\ Len(queue') >= Len(queue)
             /\ SubSeq(queue', 1, Len(queue)) = queue
       /\ (current_mixer_sends' # current_mixer_sends
              \/ last_meter_values' # last_meter_values)
          => (guiPc = "idle" /\ ~ThreadStep)]_vars

\* a mix-send report and a level are queued by the receive thread, and
\* neither is in the store yet
C16_Witness ==
    /\ \E k \in 1..Len(queue) :
          /\ queue[k].sig = "emit_mix_send_received"
          /\ CacheGet(current_mixer_sends,
                      Cell(queue[k].j, queue[k].typ, queue[k].i)).volume # queue[k].v
    /\ \E k \in 1..Len(queue) :
          /\ queue[k].sig = "emit_meter_received"
          /\ queue[k].i \notin DOMAIN last_meter_values[queue[k].typ]

-----------------------------------------------------------------------------
(* Messages the console does not take (specification Reports) *)

\* the receive thread that took the datagram of the step goes on polling
KeepsRunning ==
    \E t \in Threads :
        /\ pc[t] = "poll" /\ pc'[t] = "loop"
        /\ server_error' = server_error /\ sock' = sock
        /\ stop_event' = stop_event /\ is_connected' = is_connected

\* C17: a datagram with an address outside the table queues its log line and
\* nothing else, its receipt and the delivery of the log line leave the
\* console's store and the wire alone, and the receive thread goes on.
C17_UnmappedOnlyLogged ==
    [][/\ (Receipt /\ Len(Received) >= 1 /\ Received[1].typ \notin Mapped) =>
             /\ Len(Received) = 1
             /\ Received[1].sig = "message_received_signal"
             /\ Store' = Store
             /\ KeepsRunning
       /\ (queue # <<>> /\ queue' = Tail(queue)
             /\ Head(queue).sig = "message_received_signal")
          => Store' = Store]_vars

\* the log line of an unmapped address is queued, and the thread that
\* received it has received another datagram since
C17_Witness ==
    \E k \in 1..Len(queue) :
        /\ queue[k].sig = "message_received_signal"
        /\ queue[k].typ \notin Mapped
        /\ \E n \in (k + 1)..Len(queue) :
              queue[n].sig = "message_received_signal" /\ queue[n].tid = queue[k].tid
        /\ pc[queue[k].tid] \in {"loop", "poll"}


\* the entry of the table for a mapped address
EntryOf(address) == CHOOSE e \in _map_osc_addresses : e.addr = address
\* the shape of the value of a parameter: a float for gains, volumes and
\* levels, an integer for pans, an integer or a boolean for flags
ShapeOf(e) ==
    CASE e.handler \in {"_handle_gain", "_handle_meter"} -> {"f"}
      [] e.handler \in {"_handle_link", "_handle_bool"} -> {"i", "b"}
      [] e.handler = "_handle_mix_update" -> IF e.upd = "pan" THEN {"i"} ELSE {"f"}
\* n is the integer part of a value given in tenths
IntegerPart(n, tenths) ==
    IF tenths >= 0 THEN n * 10 <= tenths /\ tenths < (n + 1) * 10
    ELSE n * 10 >= tenths /\ tenths > (n - 1) * 10

\* C18 as stated: a report whose argument has not the shape of its
\* parameter (an integer for a gain, a float for a pan or a flag) queues no
\* notification: it is rejected and not converted.
C18_MismatchRejected ==
    [][(Receipt /\ Len(Received) >= 1 /\ Received[1].typ \in Mapped
          /\ Len(Received[1].args) >= 1
          /\ Received[1].args[1].t \notin ShapeOf(EntryOf(Received[1].typ)))
       => (Len(Received) = 1 /\ Store' = Store)]_vars

\* C18 as the code has it: a report whose argument is no number queues its
\* log line only and leaves the store alone; a number of any shape is taken
\* and converted: to a float for a gain, a volume or a level, to its integer
\* part for a pan, to true unless it is zero for a flag.
C18_NumbersConverted ==
    [][(Receipt /\ Len(Received) >= 1 /\ Received[1].typ \in Mapped) =>
          LET a == Received[1].args
              e == EntryOf(Received[1].typ)
          IN  /\ Store' = Store
              /\ IF Len(a) = 0 \/ a[1].t \notin {"f", "i", "b"}
                 THEN Len(Received) = 1
                 ELSE /\ Len(Received) = 2
                      /\ CASE e.handler = "_handle_meter" ->
                                 Received[2].v = IF a[1].t = "f" THEN a[1].v ELSE a[1].v * 100
                            [] e.handler = "_handle_gain"
                                 \/ (e.handler = "_handle_mix_update" /\ e.upd = "volume") ->
                                 Received[2].v = IF a[1].t = "f" THEN a[1].v ELSE a[1].v * 10
                            [] e.handler = "_handle_mix_update" /\ e.upd = "pan" ->
                                 IF a[1].t = "f" THEN IntegerPart(Received[2].v, a[1].v)
                                 ELSE Received[2].v = a[1].v
                            [] e.handler \in {"_handle_link", "_handle_bool"} ->
                                 Received[2].v = IF a[1].v = 0 THEN 0 ELSE 1]_vars

\* a gain report with a string was logged without a notification, and the
\* pan report 2.7 received after it is queued as pan 2
C18_Witness ==
    \E k \in 1..Len(queue) :
        /\ queue[k].sig = "message_received_signal"
        /\ queue[k].args[1].t = "s"
        /\ k + 2 <= Len(queue)
        /\ queue[k + 1].sig = "message_received_signal"
        /\ queue[k + 1].args = <<F(27)>>
        /\ queue[k + 2].sig = "emit_mix_pan_received"
        /\ queue[k + 2].v = 2


\* the on/off control a signal of the handler reports
ControlOf(sig) == CHOOSE c \in BoolControls : signal_map(c) = sig

\* C19: the delivery of an on/off report for channel (type, i) sets the check
\* box of that parameter of that channel to the reported value and changes
\* nothing else in the store.
C19_FlagWritten ==
    [][Delivery("on_bool_received") =>
          LET e == Head(queue)
              key == ChannelKey(TabOf(e.typ), ControlOf(e.sig))
          IN  /\ widgets'[key][e.i + 1].value = e.v
              /\ \A k \in DOMAIN widgets : \A n \in 1..Len(widgets[k]) :
                    (k # key \/ n # e.i + 1) => widgets'[k][n] = widgets[k][n]
              /\ current_mixer_sends' = current_mixer_sends
              /\ last_meter_values' = last_meter_values]_vars

-----------------------------------------------------------------------------
(* What goes out (specification Console) *)

\* the addresses of the level reports
MeterAddresses ==
    {OSC_INPUT_LEVEL(n) : n \in 1..NUM_INPUT_CHANNELS}
    \cup {OSC_OUTPUT_LEVEL(n) : n \in 1..NUM_OUTPUT_CHANNELS}
    \cup {OSC_PLAYBACK_LEVEL(n) : n \in 1..NUM_PLAYBACK_CHANNELS}

\* C20: no message transmitted, and no message handed to the transport by
\* the last operation, goes to the level address of a channel.
C20_NoMeterWrites ==
    /\ \A k \in 1..Len(sent) : sent[k].addr \notin MeterAddresses
    /\ \A k \in 1..Len(lastAction.calls) : lastAction.calls[k].addr \notin MeterAddresses

\* the user has made edits, reports of the device have been delivered, and
\* messages besides the refresh request have been transmitted
C20_Witness ==
    /\ nLocal = MaxLocal
    /\ nInbound = MaxInbound
    /\ queue = <<>>
    /\ Len(sent) >= 3
    /\ lastAction.op \in {"user_set_mix_gain", "user_set_mix_pan"}
    /\ Len(lastAction.calls) = 1

-----------------------------------------------------------------------------
(* The stereo link (specification Console) *)

\* the link addresses of the channels with an even 1-based number
EvenLinkAddresses ==
    {OSC_INPUT_STEREO(n) : n \in {k \in 1..NUM_INPUT_CHANNELS : k % 2 = 0}}
    \cup {OSC_OUTPUT_STEREO(n) : n \in {k \in 1..NUM_OUTPUT_CHANNELS : k % 2 = 0}}

\* C21: the link flag is set on even 0-based indices only: the table maps a
\* link address for odd 1-based channel numbers only, a link notification for
\* an odd 0-based index would change nothing, no check box of an odd index is
\* checked, and no link message goes to an even 1-based channel number.
C21_LinkOnEvenOnly ==
    /\ \A e \in _map_osc_addresses :
          e.handler = "_handle_link" =>
             /\ e.idx % 2 = 0
             /\ e.addr \in {OSC_INPUT_STEREO(e.idx + 1), OSC_OUTPUT_STEREO(e.idx + 1)}
    /\ \A a \in EvenLinkAddresses : a \notin {e.addr : e \in _map_osc_addresses}
    /\ \A channel_type \in {"input", "output"} :
          \A i \in {k \in 0..(TypeCount(channel_type) - 1) : k % 2 = 1} :
             /\ \A value \in BOOLEAN : on_link_received(G, channel_type, i, value) = G
             /\ ~LinkFlag(widgets, TabOf(channel_type), i)
    /\ \A k \in 1..Len(sent) : sent[k].addr \notin EvenLinkAddresses
    /\ \A k \in 1..Len(lastAction.calls) :
          lastAction.calls[k].addr \notin EvenLinkAddresses

\* the user has checked the link box of the first input, and a link report
\* of the device has been delivered
C21_Witness ==
    /\ LinkFlag(widgets, "Inputs", 0)
    /\ nInbound > 0
    /\ queue = <<>>
    /\ \E t \in Threads : hist[t].handled > 0

-----------------------------------------------------------------------------
(* The keys of the caches (specification Stores) *)

\* C22: every cell of the mix-send cache is (out, type, in) with out an
\* output index, type input or playback and in a channel index of that type;
\* every pending level belongs to a channel type and a channel index of it.
C22_KeysValid ==
    /\ \A cell \in DOMAIN current_mixer_sends :
          /\ cell[1] \in 0..(NUM_OUTPUT_CHANNELS - 1)
          /\ cell[2] \in {"input", "playback"}
          /\ cell[3] \in 0..(TypeCount(cell[2]) - 1)
    /\ DOMAIN last_meter_values = {"input", "output", "playback"}
    /\ \A type_key \in DOMAIN last_meter_values :
          \A i \in DOMAIN last_meter_values[type_key] : i \in 0..(TypeCount(type_key) - 1)

\* the cache holds a reported cell of the last output and a cell the user
\* wrote, and the level of the last playback channel is pending
C22_Witness ==
    /\ Cell(NUM_OUTPUT_CHANNELS - 1, "playback", NUM_PLAYBACK_CHANNELS - 1)
          \in DOMAIN current_mixer_sends
    /\ CacheGet(current_mixer_sends,
                Cell(NUM_OUTPUT_CHANNELS - 1, "playback", NUM_PLAYBACK_CHANNELS - 1)).volume
          = -100
    /\ \E cell \in DOMAIN current_mixer_sends :
          current_mixer_sends[cell].volume \in UserMixVolumes
    /\ (NUM_PLAYBACK_CHANNELS - 1) \in DOMAIN last_meter_values["playback"]

-----------------------------------------------------------------------------
(* Transmission failures *)

\* a step of the main thread that runs a slot: a user's edit or a queued
\* notification
SlotStep ==
    \/ nLocal' = nLocal + 1
    \/ (queue # <<>> /\ queue' = Tail(queue)
         /\ Head(queue).sig # "message_received_signal")

SendErrors == {"Send Error", "Send Multi Error"}

\* C23: send() and send_multi() return to their caller whatever happens:
\* every message handed to them is either transmitted or reported by a
\* printed line, a failed transmission and a send while not connected
\* transmit nothing, the handler's client, flags, server and threads are as
\* before, and the slot that called runs to its end (the mix edit is stored
\* in the cache, the meter timer runs after on_osc_connected).
C23_SendNeverRaises ==
    [][SlotStep =>
        LET a == lastAction'
            failed == \E n \in 1..Len(a.printed) : a.printed[n] \in SendErrors
        IN  /\ Len(sent') = Len(sent) + Len(a.calls) - Len(a.printed)
            /\ SubSeq(sent', 1, Len(sent)) = sent
            /\ (~(client /\ is_connected) \/ failed) => sent' = sent
            /\ failed => client /\ is_connected
            /\ UNCHANGED <<handlerVars, threadVars>>
            /\ a.op = "user_set_mix_gain" =>
                   /\ Cell(a.j, a.typ, a.i) \in DOMAIN current_mixer_sends'
                   /\ current_mixer_sends'[Cell(a.j, a.typ, a.i)].volume = a.v
            /\ a.op = "on_osc_connected" => meter_timer'
    ]_vars

\* a mix edit and a /refresh were refused by the socket, and a mix edit was
\* made while not connected: none of them was transmitted and the session
\* is still up
C23_Witness ==
    /\ lastAction.op = "user_set_mix_gain"
    /\ lastAction.printed = <<"Send Multi Error">>
    /\ sent = <<>>
    /\ queue = <<>>
    /\ nLocal = MaxLocal
    /\ client /\ is_connected
    /\ \E t \in Threads : pc[t] = "loop"
    /\ Cardinality(DOMAIN current_mixer_sends) >= 1

-----------------------------------------------------------------------------
(* Write addresses and the inbound table *)

WritableControls(type_prefix) ==
    {"gain_spinbox"} \cup (IF type_prefix = "Inputs" THEN BoolControls
                           ELSE BoolControls \ {"phantom", "hiz"})

\* the messages the write slot hands to the handler when it runs for the
\* widget of (tab, control, channel i)
WriteCalls(type_prefix, control, i) ==
    LET nm == widgets[ChannelKey(type_prefix, control)][i + 1].name
    IN  IF control = "gain_spinbox" THEN send_gain_from_gui(G, nm, 0).calls
        ELSE send_bool_from_gui(G, nm, Qt_Checked).calls

\* the fixed arguments the inbound table holds for a parameter of a channel
TableType(type_prefix, control) ==
    LET type_key == IF type_prefix = "Inputs" THEN "input" ELSE "output"
    IN  IF control = "gain_spinbox" THEN type_key ELSE type_key \o "_" \o control

\* C24: the write slot of every writable parameter of every channel, and of
\* the volume of every displayed mix cell, addresses its message to the
\* address that the inbound table maps back to the same parameter of the
\* same channel or cell (0-based index i, channel number i + 1).
C24_WriteAddressMapsBack ==
    /\ \A type_prefix \in {"Inputs", "Outputs"} :
         \A i \in 0..(TabCount(type_prefix) - 1) :
           \A control \in WritableControls(type_prefix) :
              LET calls == WriteCalls(type_prefix, control, i)
              IN  /\ Len(calls) = 1
                  /\ calls[1].addr \in Mapped
                  /\ EntryOf(calls[1].addr).typ = TableType(type_prefix, control)
                  /\ EntryOf(calls[1].addr).idx = i
    /\ \A in_type \in {"input", "playback"} :
         \A i \in 0..(TypeCount(in_type) - 1) :
              LET nm == widgets["mixer_" \o in_type \o "_gain_spinbox"][i + 1].name
                  calls == send_mix_gain_from_gui(G, nm, 0).calls
              IN  /\ Len(calls) = 1
                  /\ calls[1].addr \in Mapped
                  /\ EntryOf(calls[1].addr).upd = "volume"
                  /\ EntryOf(calls[1].addr).out = current_mixer_output_idx
                  /\ EntryOf(calls[1].addr).typ = in_type
                  /\ EntryOf(calls[1].addr).idx = i

-----------------------------------------------------------------------------
(* The range of the gains on the wire *)

GainRange(type_key) == IF type_key = "input" THEN 0..750 ELSE (-650)..60

GainMessagesInRange(msgs) ==
    \A n \in 1..Len(msgs) :
      \A type_key \in {"input", "output"} :
        \A i \in 0..(TypeCount(type_key) - 1) :
          msgs[n].addr = GainAddress(TabOf(type_key), i)
             => /\ Len(msgs[n].args) = 1
                /\ msgs[n].args[1].t = "f"
                /\ msgs[n].args[1].v \in GainRange(type_key)

\* what the slider console hands to the handler when the gain slider of
\* channel i is asked for v
archive_request(type_key, i, v) ==
    archive_send_gain_from_gui(G, <<type_key, "gain", ToString(i)>>,
                               archive_gain_slider_setValue(type_key, v)).calls

\* C25: every gain of an input on the wire lies in 0.0 .. 75.0 dB and every
\* volume of an output in -65.0 .. +6.0 dB; a request for a gain outside the
\* range is not sent or carries the nearest bound: a request for 100.0 dB on
\* an input sends nothing or 75.0. This holds for the spin boxes of the
\* console and for the sliders of the slider console.
C25_GainInRange ==
    [][/\ GainMessagesInRange(sent')
       /\ UserEdit("user_request_gain") =>
             LET a == lastAction'
                 type_key == IF a.typ = "Inputs" THEN "input" ELSE "output"
                 bound == IF a.v > 0 THEN 750 ELSE -650
             IN  \/ sent' = sent /\ a.calls = <<>>
                 \/ /\ a.calls = <<Msg(GainAddress(a.typ, a.i),
                                       <<F(IF type_key = "input" THEN Max(bound, 0)
                                           ELSE Min(bound, 60))>>)>>
                    /\ (client /\ is_connected) => sent' = sent \o a.calls
       /\ \A type_key \in {"input", "output"} :
            \A i \in 0..(TypeCount(type_key) - 1) :
              \A v \in RequestedGains :
                 /\ GainMessagesInRange(archive_request(type_key, i, v))
                 /\ Len(archive_request(type_key, i, v)) = 1
       /\ \A i \in 0..(NUM_INPUT_CHANNELS - 1) :
            archive_request("input", i, 1000) = <<Msg(OSC_INPUT_GAIN(i + 1), <<F(750)>>)>>
    ]_vars

\* while connected the user has asked the gain spin box of the first input
\* for 100.0 dB: the spin box shows 75.0 and nothing was handed to the
\* handler
C25_Witness ==
    /\ client /\ is_connected
    /\ lastAction.op = "user_request_gain"
    /\ lastAction.typ = "Inputs" /\ lastAction.i = 0 /\ lastAction.v = 1000
    /\ widgets["inputs_gain_spinbox"][1].value = 750
    /\ lastAction.calls = <<>>
    /\ \E n \in 1..Len(sent) : sent[n].addr = OSC_REFRESH

-----------------------------------------------------------------------------
(* Exceptions of the inbound path *)

\* C26: the slot that applies a report of a mapped address ends without an
\* exception, whatever the arguments of the message; a message that no
\* handler accepts queues its log line only, and the delivery of the log
\* line leaves the store as it is.
C26_NoUnhandledException ==
    [][/\ (queue # <<>> /\ queue' = Tail(queue)
           /\ SlotOf(Head(queue).sig) \in ReportSlots)
          => lastAction'.raised = ""
       /\ Delivery("log_osc_message") => Store' = Store]_vars

-----------------------------------------------------------------------------
(* The stereo link copies nothing *)

\* the values of the widgets, the link check boxes left out
Values(w) ==
    [k \in DOMAIN w \ {ChannelKey(tp, "link") : tp \in TabPrefixes} |->
        [n \in 1..Len(w[k]) |-> w[k][n].value]]

\* C27: a change of the link flag of a pair, reported by the device or made
\* by the user, to linked or to unlinked, changes no gain, no on/off
\* parameter and no mix cell: the step that applies it leaves the values of
\* all widgets but the link check box and the mix-send cache as they were,
\* and so does _update_linked_channel_state for every pair of every list of
\* widgets, whatever the values of the two channels.
C27_LinkCopiesNothing ==
    [][(UserEdit("user_toggle_link") \/ Delivery("on_link_received")) =>
        LET before == Values(widgets)
        IN  /\ Values(widgets') = before
            /\ current_mixer_sends' = current_mixer_sends
            /\ \A channel_type \in {"input", "output", "inputs", "outputs"} :
                 \A i \in 0..(NUM_INPUT_CHANNELS - 1) :
                   \A is_linked \in BOOLEAN :
                      LET g == _update_linked_channel_state(G, channel_type, i, is_linked)
                          h == send_link_from_gui(G, <<channel_type, "link", ToString(i)>>,
                                                  IF is_linked THEN Qt_Checked ELSE 0)
                      IN  /\ Values(g.widgets) = before
                          /\ g.sends = current_mixer_sends
                          /\ Values(h.widgets) = before
                          /\ h.sends = current_mixer_sends
    ]_vars

\* the user has linked and then unlinked the first pair of inputs while the
\* two channels hold different gains and a mix cell of the pair a reported
\* volume
C27_Witness ==
    /\ lastAction.op = "user_toggle_link"
    /\ lastAction.v = 0
    /\ lastAction.rep = FALSE
    /\ nLocal = MaxLocal
    /\ ~LinkFlag(widgets, "Inputs", 0)
    /\ Cell(0, "input", 0) \in DOMAIN current_mixer_sends
    /\ current_mixer_sends[Cell(0, "input", 0)].volume = -100
    /\ \E t \in Threads : hist[t].handled >= 2

-----------------------------------------------------------------------------
(* The second channel of a pair after the link is taken off *)

\* C28: when the user has taken the link of the pair (i, i + 1) off, the
\* next gain write to channel i + 1 is accepted (the spin box takes the
\* value) and, while connected, sent to the gain address of channel i + 2 on
\* the wire.
C28_FollowerWritesSent ==
    [][(/\ lastAction.op = "user_toggle_link" /\ lastAction.v = 0
        /\ UserEdit("user_set_gain")
        /\ lastAction'.typ = lastAction.typ
        /\ lastAction'.i = lastAction.i + 1
        /\ client /\ is_connected)
       => /\ widgets'[ChannelKey(lastAction'.typ, "gain_spinbox")][lastAction'.i + 1].value
                = lastAction'.v
          /\ sent' = Append(sent, Msg(GainAddress(lastAction'.typ, lastAction'.i),
                                      <<F(lastAction'.v)>>))]_vars

-----------------------------------------------------------------------------
(* The listen socket and the threads (specification Spec) *)

\* C29: a receive thread that bound its listen socket and has ended has
\* closed that socket (server_close), whatever stop() did meanwhile.
C29_SocketClosed ==
    \A t \in Threads :
        (pc[t] = "dead" /\ hist[t].bind = "ok") => sock[t] = "closed"

\* C30: at most one receive thread is alive at any time.
C30_OneReceiveThread ==
    Cardinality({t \in Threads : Alive(t)}) <= 1

-----------------------------------------------------------------------------
(* start() that does not start (specification Spec) *)

\* the step is a call of start() with the port it was given
StartCall(port) ==
    /\ guiPc = "idle" /\ nCalls' = nCalls + 1
    /\ lastAction'.op \in {"start", "start_refused", "start_failed"}
    /\ lastAction'.v = port

\* the thread the handler holds is alive
Running == server_thread # 0 /\ Alive(server_thread)

\* C31: a start() called while the receive thread that the handler holds is
\* alive is refused (returns False) and changes nothing: target port,
\* client, server, thread, stop event and connected flag are as before, no
\* thread is created and no notification is emitted or queued.
C31_RefusedStartChangesNothing ==
    [][\A port \in TargetPorts :
         (StartCall(port) /\ Running) =>
            /\ lastAction'.op = "start_refused"
            /\ UNCHANGED <<handlerVars, threadVars, queue, guiVars, sent,
                           sessionDisc, totalDisc, syncDisc>>]_vars

\* a start() for another port was refused during a session that is
\* connected to port 8000
C31_Witness ==
    /\ lastAction.op = "start_refused"
    /\ lastAction.v = 65536
    /\ target_port = 8000
    /\ client /\ is_connected
    /\ Running

ValidPort(port) == 0 < port /\ port < 65536

\* what a start() that fails on its port does: no thread, the stop event as
\* before, one Disconnected emitted by the call itself
FailsOnPort ==
    /\ lastAction'.op = "start_failed"
    /\ pc' = pc /\ server_thread' = server_thread
    /\ stop_event' = stop_event
    /\ totalDisc' = totalDisc + 1
    /\ syncDisc' = syncDisc + 1
    /\ queue' = queue

\* C32 as stated: every start() with a target port outside 1..65535 returns
\* False, creates no thread, leaves the stop event as it is and emits one
\* Disconnected (client configuration error) before it returns.
C32_BadPortFails ==
    [][\A port \in TargetPorts :
         (StartCall(port) /\ ~ValidPort(port)) => FailsOnPort]_vars

\* C32, amended: this holds when the thread that the handler holds is not
\* alive; while it is alive the call is refused before the port is looked
\* at and emits nothing. In both cases no thread is created, the stop event
\* and the client are as before and nothing is queued.
C32_BadPortFailsUnlessRunning ==
    [][\A port \in TargetPorts :
         (StartCall(port) /\ ~ValidPort(port)) =>
            /\ ~Running => FailsOnPort
            /\ Running => (lastAction'.op = "start_refused"
                            /\ totalDisc' = totalDisc /\ syncDisc' = syncDisc)
            /\ pc' = pc /\ server_thread' = server_thread
            /\ stop_event' = stop_event /\ client' = client
            /\ queue' = queue]_vars

\* after a session was stopped, a start() with port 65536 has failed: the
\* stop event is still set
C32_Witness ==
    /\ lastAction.op = "start_failed"
    /\ lastAction.v = 65536
    /\ stop_event
    /\ syncDisc >= 1
    /\ \E t \in Threads : hist[t].stopReq

-----------------------------------------------------------------------------
(* /refresh *)

Refreshes(msgs) == Cardinality({n \in 1..Len(msgs) : msgs[n].addr = OSC_REFRESH})

-----------------------------------------------------------------------------
(* Reports are not echoed *)

\* C34: the slot that applies a report of the device (gain or volume, link,
\* on/off parameter, mix volume, mix pan, level) hands no message to the
\* handler and nothing is sent by the step; the meter timer sends nothing
\* either.
C34_ReportsNotEchoed ==
    [][/\ (queue # <<>> /\ queue' = Tail(queue)
           /\ SlotOf(Head(queue).sig) \in ReportSlots)
          => (sent' = sent /\ lastAction'.calls = <<>>)
       /\ (lastAction'.op = "update_gui_meters" /\ lastAction' # lastAction)
          => sent' = sent]_vars

\* while connected a pan report for a displayed mix cell was applied: the
\* pan spin box shows it and only the /refresh of the session was sent
C34_Witness ==
    /\ client /\ is_connected
    /\ lastAction.op = "on_mix_pan_received"
    /\ lastAction.j = current_mixer_output_idx
    /\ widgets["mixer_" \o lastAction.typ \o "_pan_spinbox"][lastAction.i + 1].value
          = lastAction.v
    /\ lastAction.v # 0
    /\ sent = <<Msg(OSC_REFRESH, <<>>)>>

-----------------------------------------------------------------------------
(* Switching the mixer view *)

MixCells ==
    {Cell(o, in_type, i) : o \in 0..(NUM_OUTPUT_CHANNELS - 1),
                           in_type \in {"input", "playback"},
                           i \in 0..(Max(NUM_INPUT_CHANNELS, NUM_PLAYBACK_CHANNELS) - 1)}

\* C35: a step in which the user selects another output in the mixer view
\* sends no message (no call of the client, nothing added to the messages
\* sent) and leaves the cached volume and pan of every mix cell as they were.
C35_ViewSwitchIsSilent ==
    [][UserEdit("user_select_output")
          => /\ sent' = sent
             /\ lastAction'.calls = <<>>
             /\ \A cell \in MixCells :
                    CacheGet(current_mixer_sends', cell)
                        = CacheGet(current_mixer_sends, cell)]_vars

\* the volume and the pan that the strip of input i of a type displays
StripShows(w, in_type, i) ==
    [volume |-> w["mixer_" \o in_type \o "_gain_spinbox"][i + 1].value,
     pan |-> w["mixer_" \o in_type \o "_pan_spinbox"][i + 1].value]

\* a cached cell brought into the range the strip can display
Displayable(c) ==
    [volume |-> Clamp(-650, 60, c.volume), pan |-> Clamp(-100, 100, c.pan)]

\* C36: in every state each strip of the displayed output shows the cached
\* volume and pan of its mix cell, brought into the displayable range.
C36_DisplayMatchesCache ==
    \A in_type \in {"input", "playback"} :
        \A i \in 0..(TypeCount(in_type) - 1) :
            i < Len(WidgetsGet(widgets, "mixer_" \o in_type \o "_pan_spinbox"))
            => StripShows(widgets, in_type, i)
                  = Displayable(CacheGet(current_mixer_sends,
                                         Cell(current_mixer_output_idx, in_type, i)))

-----------------------------------------------------------------------------
(* Ranges of the mix-send writes (specification Ranges) *)

MixSendAddresses == {OSC_MIX_SEND_SET(c[1] + 1, c[2], c[3] + 1)
                        : c \in MixCells}

\* C37: every mix-send message sent so far carries a volume within
\* -65.0..+6.0 dB and a pan within -100..100.
C37_MixSendsInRange ==
    \A n \in 1..Len(sent) :
        sent[n].addr \in MixSendAddresses
        => /\ Len(sent[n].args) = 2
           /\ sent[n].args[1].v \in -650..60
           /\ sent[n].args[2].v \in -100..100

-----------------------------------------------------------------------------
(* The connected flag and the send client *)

\* C38: in every state in which the handler's connected flag is true the
\* handler holds a send client.
C38_ConnectedHasClient == is_connected => client
====
